---- MODULE Spec2Model ----
(***************************************************************************)
(* Model of src/compiler.cc: the CompilationJob state machine, the         *)
(* optimized code cache and the compile entry points of class Compiler.    *)
(*                                                                         *)
(* One function descriptor (SharedFunctionInfo) is shared by the closures  *)
(* (JSFunction) f and g.  Every entry point of Compiler runs on the        *)
(* isolate thread and is one atomic action; the Execute phase of a queued  *)
(* optimizing job is an action of the background thread.                   *)
(*                                                                         *)
(* A function of the source is an operator over a record h: the heap and   *)
(* the log of what the running entry point has done so far.  A function    *)
(* that continues after a call is split at the call: the operator named    *)
(* after the function makes the call and hands the result to the operator  *)
(* that models the rest of the function.                                   *)
(***************************************************************************)
EXTENDS Integers, Sequences, FiniteSets, Bags, TLC

\* ---------------------------------------------------------------- bounds
\* Capacity of the queue of the optimizing compile dispatcher.
MaxJobs == 2
\* Cap of the profiler tick counter.
MaxTicks == 1
\* Eager inner function literals of one function.
MaxInner == 1

\* The closures that share the descriptor.
ClosureSeq == <<"f", "g">>
Closures == {ClosureSeq[i] : i \in 1..Len(ClosureSeq)}
NoClosure == "none"

\* ----------------------------------------------------------- code objects
Builtin(n) == [kind |-> "BUILTIN", name |-> n, id |-> 0]
CompileLazy == Builtin("CompileLazy")
InterpreterEntryTrampoline == Builtin("InterpreterEntryTrampoline")
CheckOptimizationMarker == Builtin("CheckOptimizationMarker")
InstantiateAsmJs == Builtin("InstantiateAsmJs")
FullCode == [kind |-> "FUNCTION", name |-> "full-codegen", id |-> 0]
OptCode(i) == [kind |-> "OPTIMIZED_FUNCTION", name |-> "turbofan", id |-> i]
NoCode == [kind |-> "NONE", name |-> "null", id |-> 0]

\* BailoutReason values used by compiler.cc
kNoReason == "kNoReason"
kFunctionBeingDebugged == "kFunctionBeingDebugged"
kOptimizationDisabledForTest == "kOptimizationDisabledForTest"
kOptimizationDisabled == "kOptimizationDisabled"
kBailedOutDueToDependencyChange == "kBailedOutDueToDependencyChange"
\* A reason given by the optimizing backend, and one given by the parser.
kBackendBailout == "kBackendBailout"
kDontOptimize == "kDontOptimize"

\* CompilationJob::State and CompilationJob::Status
kReadyToPrepare == "kReadyToPrepare"
kReadyToExecute == "kReadyToExecute"
kReadyToFinalize == "kReadyToFinalize"
kSucceeded == "kSucceeded"
kFailed == "kFailed"
SUCCEEDED == "SUCCEEDED"
FAILED == "FAILED"

\* ConcurrencyMode
kConcurrent == "kConcurrent"
kNotConcurrent == "kNotConcurrent"

\* OptimizationMarker values
kNone == "kNone"
kCompileOptimized == "kCompileOptimized"
kInOptimizationQueue == "kInOptimizationQueue"

VARIABLES
  flags,      \* process-wide flags, fixed at start
  literal,    \* properties of the function literal of the descriptor
  heap        \* the objects of the isolate

vars == <<flags, literal, heap>>

shared == heap.shared    \* the SharedFunctionInfo (function descriptor)
vec == heap.vec          \* the feedback vector: code slot and profiler ticks
fn == heap.fn            \* fn[f]: code and optimization marker of closure f
marked == heap.marked    \* optimized code objects marked for deoptimization
queue == heap.queue      \* bag of the jobs of the optimizing dispatcher
cdjob == heap.cdjob      \* the job enqueued with the compiler dispatcher
pending == heap.pending  \* isolate->has_pending_exception()
history == heap.history  \* the violations of the job contract in the calls so far

NoJob == [kind |-> "none"]
NoLog == [op |-> "none"]

\* ------------------------------------------------------------------- log
\* What an entry point did: the calls it made, the phases it ran, the job it
\* constructed and the assertions (DCHECK) it violated.
EmptyLog(op, f, mode, osr) ==
  [op |-> op, f |-> f, mode |-> mode, osr |-> osr, ret |-> "none",
   hit |-> FALSE, constructed |-> 0, phases |-> <<>>, calls |-> {},
   bailout |-> kNoReason, job_state |-> "none", ctx |-> FALSE,
   asserts |-> {}, steps |-> <<>>, after_handover |-> {}, order |-> <<>>,
   forbidden |-> <<>>]

\* The state an entry point starts from: heap h with an empty log.
BeginAt(h, op, f, mode, osr) == [h EXCEPT !.log = EmptyLog(op, f, mode, osr)]
Begin(op, f, mode, osr) == BeginAt(heap, op, f, mode, osr)
LogCall(h, c) == [h EXCEPT !.log.calls = @ \cup {c}]
LogPhase(h, p) == [h EXCEPT !.log.phases = Append(@, p)]
LogAssert(h, a) == [h EXCEPT !.log.asserts = @ \cup {a}]
LogRet(h, r) == [h EXCEPT !.log.ret = r]
\* The order of the effects of a finalization.
LogOrder(h, e) == [h EXCEPT !.log.order = Append(@, e)]
\* The implementation of a phase runs inside these assert scopes.
Scoped(h, scopes) == [h EXCEPT !.log.forbidden = Append(@, scopes)]
\* DCHECK(cond)
Check(h, cond, a) == IF cond THEN h ELSE LogAssert(h, a)
\* A phase of a job has run: which job, on which thread, the phases that had
\* run on the job before, and the state before and after.
LogStep(h, op, job, to, thread) ==
  [h EXCEPT !.log.steps =
     Append(@, [op |-> op, kind |-> job.kind, mode |-> job.mode,
                from |-> job.state, to |-> to, ran |-> job.ran,
                thread |-> thread])]
\* The isolate thread reads or writes a job or its CompilationInfo: recorded
\* if the job has been handed to the optimizing dispatcher before.
Touch(h, what) ==
  IF "QueueForOptimization" \in h.log.calls
    THEN [h EXCEPT !.log.after_handover = @ \cup {what}]
    ELSE h
\* Records the final state of a job when it leaves the entry point.
LogJob(h, job) ==
  [h EXCEPT !.log.job_state = job.state, !.log.bailout = job.bailout,
            !.log.ctx = job.ctx]

\* ------------------------------------------------------- CompilationInfo
\* CompilationInfo::IsOptimizing(): the job was built for the optimizing tier.
IsOptimizing(job) == job.kind = "turbofan"

\* CompilationInfo::AbortOptimization: record the reason (the first one wins)
\* and mark the attempt so that the descriptor is disabled for this tier.
InfoAbortOptimization(job, reason) ==
  [job EXCEPT !.bailout = IF @ = kNoReason THEN reason ELSE @,
              !.disable_future = TRUE]

\* CompilationInfo::RetryOptimization: record the reason, descriptor untouched.
InfoRetryOptimization(job, reason) ==
  IF job.disable_future THEN job ELSE [job EXCEPT !.bailout = reason]

\* SharedFunctionInfo::DisableOptimization(reason)
DisableOptimization(h, reason) ==
  [h EXCEPT !.shared.optimization_disabled = TRUE,
            !.shared.disable_reason = reason]

\* Destruction of a job and of the CompilationInfo it owns: an aborted
\* attempt marks the descriptor.
DestroyJob(h, job) ==
  IF job.disable_future /\ IsOptimizing(job)
    THEN DisableOptimization(LogJob(h, job), job.bailout)
    ELSE LogJob(h, job)

\* ------------------------------------------------------- CompilationJob
NewJob(kind, f, osr, mode) ==
  [kind |-> kind, f |-> f, osr |-> osr, mode |-> mode,
   state |-> kReadyToPrepare, ctx |-> FALSE, aborted |-> FALSE,
   bailout |-> kNoReason, disable_future |-> FALSE, from_bytecode |-> FALSE,
   bg |-> FALSE, debug |-> FALSE, code |-> NoCode, ran |-> <<>>]

\* CompilationJob::can_execute_on_background_thread()
CanExecuteOnBackgroundThread(job) == job.kind \in {"turbofan", "ignition"}

\* CompilationJob::UpdateState(status, next_state)
UpdateState(job, status, next) ==
  [job EXCEPT !.state = IF status = SUCCEEDED THEN next ELSE kFailed]

\* Variant of RetryOptimization that leaves the state of the job alone.
RetryOptimizationKeepsState(job, reason) == InfoRetryOptimization(job, reason)
\* CompilationJob::RetryOptimization(reason)
RetryOptimization(job, reason) ==
  [InfoRetryOptimization(job, reason) EXCEPT !.state = kFailed]

\* CompilationJob::AbortOptimization(reason)
AbortOptimization(job, reason) ==
  [InfoAbortOptimization(job, reason) EXCEPT !.state = kFailed]

\* The tier-specific implementation of a phase returns SUCCEEDED or FAILED,
\* or, in Prepare and Finalize of the optimizing tier, bails out through
\* AbortOptimization ("ABORT").
ImplOutcomes == {SUCCEEDED, FAILED, "ABORT"}
ImplStatus(impl) == IF impl = SUCCEEDED THEN SUCCEEDED ELSE FAILED

RunImpl(job, impl, next) ==
  IF impl = "ABORT" /\ IsOptimizing(job)
    THEN AbortOptimization(job, kBackendBailout)
    ELSE UpdateState(job, ImplStatus(impl), next)

\* Optimized code objects that the slot or a closure refers to.
LiveIds(h) ==
  {c.id : c \in {co \in {h.vec.optimized_code}
                         \cup {h.fn[f].code : f \in Closures}
                  : co.kind = "OPTIMIZED_FUNCTION"}}

\* The identity of a newly allocated code object: one that no live object has.
CodeIds == 1..(Cardinality(Closures) + 2)
FreshId(h) ==
  CHOOSE i \in CodeIds \ (LiveIds(h) \cup h.marked) :
    \A k \in CodeIds \ (LiveIds(h) \cup h.marked) : i <= k

\* The code object a successful Finalize phase leaves on the CompilationInfo.
ProducedCode(h, job) ==
  CASE job.kind = "turbofan" -> OptCode(FreshId(h))
    [] job.kind = "ignition" -> InterpreterEntryTrampoline
    [] job.kind = "asmjs" -> InstantiateAsmJs
    [] OTHER -> FullCode

Result(h, job, status) == [h |-> h, job |-> job, status |-> status]

\* The result of a phase: the step is logged and the job remembers the phase.
Phase(h, op, from, job, status, thread) ==
  Result(LogStep(h, op, from, job.state, thread),
         [job EXCEPT !.ran = Append(@, op)], status)

\* Variant of PrepareJob that runs on the thread the job will execute on.
PrepareJobOnExecutingThread(h, job, impl) ==
  Phase(Check(LogPhase(h, "Prepare"), job.state = kReadyToPrepare,
              "PrepareJob:state"),
        "Prepare", job, RunImpl(job, impl, kReadyToExecute), ImplStatus(impl),
        IF job.mode = kConcurrent THEN "background" ELSE "isolate")

\* CompilationJob::PrepareJob
PrepareJob(h, job, impl) ==
  Phase(Check(LogPhase(h, "Prepare"), job.state = kReadyToPrepare,
              "PrepareJob:state"),
        "Prepare", job, RunImpl(job, impl, kReadyToExecute), ImplStatus(impl),
        "isolate")

\* Lines 106-114 of ExecuteJob: the assert scopes that are open until
\* ExecuteJob returns: DisallowHeapAllocation, DisallowHandleAllocation,
\* DisallowHandleDereference and DisallowCodeDependencyChange.
ExecuteScopes(job) ==
  IF CanExecuteOnBackgroundThread(job)
    THEN {"HeapAllocation", "HandleAllocation", "HandleDereference",
          "CodeDependencyChange"}
    ELSE {}

\* Variant of ExecuteJob that opens no assert scope.
ExecuteJobUnscoped(h, job, impl, thread) ==
  Phase(Scoped(Check(Check(LogPhase(h, "Execute"),
                           CanExecuteOnBackgroundThread(job)
                             \/ thread = "isolate",
                           "ExecuteJob:thread"),
                     job.state = kReadyToExecute, "ExecuteJob:state"),
               {}),
        "Execute", job,
        RunImpl(IF CanExecuteOnBackgroundThread(job)
                  THEN [job EXCEPT !.bg = (thread # "isolate")] ELSE job,
                impl, kReadyToFinalize),
        ImplStatus(impl), thread)

\* CompilationJob::ExecuteJob, run by thread "isolate" or "background"
ExecuteJob(h, job, impl, thread) ==
  Phase(Scoped(Check(Check(LogPhase(h, "Execute"),
                           CanExecuteOnBackgroundThread(job)
                             \/ thread = "isolate",
                           "ExecuteJob:thread"),
                     job.state = kReadyToExecute, "ExecuteJob:state"),
               ExecuteScopes(job)),
        "Execute", job,
        RunImpl(IF CanExecuteOnBackgroundThread(job)
                  THEN [job EXCEPT !.bg = (thread # "isolate")] ELSE job,
                impl, kReadyToFinalize),
        ImplStatus(impl), thread)

\* CompilationJob::FinalizeJob.  ctx: the optimizing backend has marked the
\* CompilationInfo as function context specializing.
FinalizeJob(h, job, impl, ctx) ==
  Phase(Check(Check(LogPhase(h, "Finalize"), ~job.aborted,
                    "FinalizeJob:HasAborted"),
              job.state = kReadyToFinalize, "FinalizeJob:state"),
        "Finalize", job,
        IF impl = SUCCEEDED
          THEN [UpdateState(job, SUCCEEDED, kSucceeded) EXCEPT
                  !.code = ProducedCode(h, job),
                  !.ctx = ctx /\ IsOptimizing(job)]
          ELSE RunImpl(job, impl, kSucceeded),
        ImplStatus(impl), "isolate")

\* -------------------------------------------------- feedback vector, closure
\* The slot of the vector holds the cached code or the optimization marker,
\* never both: a write of the slot ends the marking of the closures of the
\* vector.
Unmarked(h) == [c \in DOMAIN h.fn |-> [h.fn[c] EXCEPT !.marker = kNone]]

\* FeedbackVector::ClearOptimizedCode
VectorClearOptimizedCode(h) ==
  [h EXCEPT !.vec.optimized_code = NoCode, !.vec.profiler_ticks = 0,
            !.fn = Unmarked(h)]

\* FeedbackVector::SetOptimizedCode
VectorSetOptimizedCode(h, code) ==
  [h EXCEPT !.vec.optimized_code = code, !.vec.profiler_ticks = 0,
            !.fn = Unmarked(h)]

\* Code::marked_for_deoptimization
MarkedForDeoptimization(h, code) ==
  code.kind = "OPTIMIZED_FUNCTION" /\ code.id \in h.marked

\* FeedbackVector::EvictOptimizedCodeMarkedForDeoptimization
EvictOptimizedCodeMarkedForDeoptimization(h) ==
  IF MarkedForDeoptimization(h, h.vec.optimized_code)
    THEN LogCall(VectorClearOptimizedCode(h), "Evict")
    ELSE h

\* JSFunction predicates
FnIsCompiled(h, f) == h.fn[f].code # CompileLazy
FnIsOptimized(h, f) == h.fn[f].code.kind = "OPTIMIZED_FUNCTION"
FnIsInterpreted(h, f) == h.fn[f].code = InterpreterEntryTrampoline
HasOptimizationMarker(h, f) == h.fn[f].marker # kNone
IsInOptimizationQueue(h, f) == h.fn[f].marker = kInOptimizationQueue
ChecksOptimizationMarker(h, f) ==
  h.fn[f].code \in {CompileLazy, InterpreterEntryTrampoline,
                    CheckOptimizationMarker}
ReplaceCode(h, f, code) == [h EXCEPT !.fn[f].code = code]
SetOptimizationMarker(h, f, m) == [h EXCEPT !.fn[f].marker = m]
ClearOptimizationMarker(h, f) == [h EXCEPT !.fn[f].marker = kNone]

\* SharedFunctionInfo::is_compiled
SharedIsCompiled(h) == h.shared.code # CompileLazy

\* JSFunction::EnsureLiterals: allocates the feedback vector if there is none
EnsureLiterals(h) == [h EXCEPT !.vec.exists = TRUE]

\* --------------------------------------------------- optimized code cache
Code(h, code) == [h |-> h, code |-> code]

\* Variant of Cached that never finds code in the slot.
CachedNever(h) == Code(h, NoCode)

\* GetCodeFromOptimizedCodeCache(function, osr_ast_id), after the eviction
Cached(h) == Code(h, h.vec.optimized_code)

\* Variant of GetCodeFromOptimizedCodeCache without the eviction of line 593.
GetCodeFromOptimizedCodeCacheNoEvict(h, f, osr) ==
  IF ~osr /\ h.vec.exists THEN Cached(h) ELSE Code(h, NoCode)

\* GetCodeFromOptimizedCodeCache(function, osr_ast_id)
GetCodeFromOptimizedCodeCache(h, f, osr) ==
  IF ~osr /\ h.vec.exists
    THEN Cached(EvictOptimizedCodeMarkedForDeoptimization(h))
    ELSE Code(h, NoCode)

\* Variant of ClearOptimizedCodeCache that leaves the slot alone.
ClearOptimizedCodeCacheNever(h, job) == h

\* Variant of ClearOptimizedCodeCache that ignores the OSR target.
ClearOptimizedCodeCacheAnyTarget(h, job) ==
  LogCall(VectorClearOptimizedCode(h), "ClearOptimizedCode")

\* ClearOptimizedCodeCache(compilation_info)
ClearOptimizedCodeCache(h, job) ==
  IF ~job.osr THEN LogCall(VectorClearOptimizedCode(h), "ClearOptimizedCode")
  ELSE h

\* Variant of InsertCodeIntoOptimizedCodeCache without the check of
\* function context specialization (lines 623-628).
InsertSpecializedToo(h, job) ==
  IF job.code.kind # "OPTIMIZED_FUNCTION" THEN LogCall(h, "Insert")
  ELSE IF ~job.osr
    THEN LogCall(VectorSetOptimizedCode(LogCall(h, "Insert"), job.code),
                 "SetOptimizedCode")
    ELSE LogCall(h, "Insert")

\* Variant of InsertCodeIntoOptimizedCodeCache that stores nothing.
InsertNothing(h, job) == LogCall(h, "Insert")

\* InsertCodeIntoOptimizedCodeCache(compilation_info)
InsertCodeIntoOptimizedCodeCache(h, job) ==
  IF job.code.kind # "OPTIMIZED_FUNCTION" THEN LogCall(h, "Insert")
  ELSE IF job.ctx THEN ClearOptimizedCodeCache(LogCall(h, "Insert"), job)
  ELSE IF ~job.osr
    THEN LogCall(VectorSetOptimizedCode(LogCall(h, "Insert"), job.code),
                 "SetOptimizedCode")
    ELSE LogCall(h, "Insert")

\* ------------------------------------------------------ optimizing tier
\* What the external collaborators answer during one call: the parser, the
\* three phases of the backend, whether the backend specialized the code to
\* the function context, OptimizingCompileDispatcher::IsQueueAvailable and
\* Heap::HighMemoryPressure.
OptInputs ==
  [parse : BOOLEAN, prep : ImplOutcomes, ctx : BOOLEAN,
   exec : {SUCCEEDED, FAILED}, fin : ImplOutcomes, queue_available : BOOLEAN,
   high_memory : BOOLEAN]

\* Compiler::ParseAndAnalyze: a failure leaves an error pending.
ParseAndAnalyze(h, ok) ==
  IF ok THEN LogCall(h, "ParseAndAnalyze")
  ELSE [LogCall(h, "ParseAndAnalyze") EXCEPT !.pending = TRUE]

\* OptimizingCompileDispatcher::QueueForOptimization(job)
QueueForOptimization(h, job) ==
  LogCall([h EXCEPT !.queue = @ (+) SetToBag({job})], "QueueForOptimization")

Answer(h, job, ok) == [h |-> h, job |-> job, ok |-> ok]

\* Line 667 of GetOptimizedCodeNow: ExecuteJob after PrepareJob, FinalizeJob
\* after ExecuteJob, each only if the one before succeeded.
\* Variant of ThenExecuteJob that runs the Execute phase after a failed
\* Prepare as well.
ThenExecuteJobAlways(p, in) == ExecuteJob(p.h, p.job, in.exec, "isolate")
ThenExecuteJob(p, in) ==
  IF p.status = SUCCEEDED THEN ExecuteJob(p.h, p.job, in.exec, "isolate")
  ELSE p
\* Variant of ThenFinalizeJob that runs the Finalize phase once more.
ThenFinalizeJobTwice(e, in) ==
  IF e.status = SUCCEEDED
    THEN FinalizeJob(FinalizeJob(e.h, e.job, in.fin, in.ctx).h,
                     FinalizeJob(e.h, e.job, in.fin, in.ctx).job, in.fin,
                     in.ctx)
  ELSE e
ThenFinalizeJob(e, in) ==
  IF e.status = SUCCEEDED THEN FinalizeJob(e.h, e.job, in.fin, in.ctx)
  ELSE e

\* Lines 667-685 of GetOptimizedCodeNow: the outcome of the three phases.
GetOptimizedCodeNowDone(r) ==
  IF r.status # SUCCEEDED THEN Answer(r.h, r.job, FALSE)
  ELSE Answer(InsertCodeIntoOptimizedCodeCache(r.h, r.job), r.job, TRUE)

\* GetOptimizedCodeNow(job)
GetOptimizedCodeNow(h, job, in) ==
  IF ~job.from_bytecode /\ ~in.parse
    THEN Answer(ParseAndAnalyze(h, FALSE), job, FALSE)
    ELSE GetOptimizedCodeNowDone(
           ThenFinalizeJob(
             ThenExecuteJob(
               PrepareJob(IF job.from_bytecode THEN h
                          ELSE ParseAndAnalyze(h, TRUE), job, in.prep),
               in),
             in))

\* Variant of GetOptimizedCodeLaterDone that runs the Execute phase before it
\* queues the job.
GetOptimizedCodeLaterDoneExecuted(p) ==
  IF p.status # SUCCEEDED THEN Answer(p.h, p.job, FALSE)
  ELSE Answer(QueueForOptimization(
                ExecuteJob(p.h, p.job, SUCCEEDED, "isolate").h,
                ExecuteJob(p.h, p.job, SUCCEEDED, "isolate").job),
              ExecuteJob(p.h, p.job, SUCCEEDED, "isolate").job, TRUE)
\* Lines 728-737 of GetOptimizedCodeLater: the outcome of PrepareJob.
GetOptimizedCodeLaterDone(p) ==
  IF p.status # SUCCEEDED THEN Answer(p.h, p.job, FALSE)
  ELSE Answer(QueueForOptimization(p.h, p.job), p.job, TRUE)

\* Variant of GetOptimizedCodeLater that runs PrepareJob before the admission
\* checks.
GetOptimizedCodeLaterPreparesFirst(h, job, in) ==
  IF ~job.from_bytecode /\ ~in.parse
    THEN Answer(ParseAndAnalyze(h, FALSE), job, FALSE)
  ELSE IF ~in.queue_available \/ in.high_memory
    THEN Answer(PrepareJob(h, job, in.prep).h,
                PrepareJob(h, job, in.prep).job, FALSE)
  ELSE GetOptimizedCodeLaterDone(
         PrepareJob(IF job.from_bytecode THEN h ELSE ParseAndAnalyze(h, TRUE),
                    job, in.prep))

\* GetOptimizedCodeLater(job)
GetOptimizedCodeLater(h, job, in) ==
  IF ~in.queue_available THEN Answer(LogCall(h, "QueueFull"), job, FALSE)
  ELSE IF in.high_memory
    THEN Answer(LogCall(h, "HighMemoryPressure"), job, FALSE)
  ELSE IF ~job.from_bytecode /\ ~in.parse
    THEN Answer(ParseAndAnalyze(h, FALSE), job, FALSE)
  ELSE GetOptimizedCodeLaterDone(
         PrepareJob(IF job.from_bytecode THEN h ELSE ParseAndAnalyze(h, TRUE),
                    job, in.prep))

\* Variant of Ineligible that gives every case the same reason.
IneligibleOneReason(h) ==
  IF h.shared.break_info
     \/ (h.shared.optimization_disabled
         /\ h.shared.disable_reason = kOptimizationDisabledForTest)
     \/ ~flags.opt
    THEN kOptimizationDisabled
  ELSE kNoReason

\* Variant of Ineligible without the break info check of line 791.
IneligibleIgnoringBreakInfo(h) ==
  IF h.shared.optimization_disabled
     /\ h.shared.disable_reason = kOptimizationDisabledForTest
    THEN kOptimizationDisabledForTest
  ELSE IF ~flags.opt THEN kOptimizationDisabled
  ELSE kNoReason

\* Lines 790-808 of GetOptimizedCode: the bailout reason of an ineligible
\* request, kNoReason for an eligible one.
Ineligible(h) ==
  IF h.shared.break_info THEN kFunctionBeingDebugged
  ELSE IF h.shared.optimization_disabled
          /\ h.shared.disable_reason = kOptimizationDisabledForTest
    THEN kOptimizationDisabledForTest
  ELSE IF ~flags.opt THEN kOptimizationDisabled
  ELSE kNoReason

\* Pipeline::NewCompilationJob(function, has_script) and SetOptimizingForOsr
NewOptimizingJob(f, mode, osr) == NewJob("turbofan", f, osr, mode)

\* Variant of GetOptimizedCodeFailed that leaves the pending error.
GetOptimizedCodeFailedKeepsPending(r) == Code(DestroyJob(r.h, r.job), NoCode)

\* Lines 859-861 of GetOptimizedCode: the attempt failed; the job is
\* destroyed on return.
GetOptimizedCodeFailed(r) ==
  Code(DestroyJob([r.h EXCEPT !.pending = FALSE], r.job), NoCode)

\* ~CompilationHandleScope, when GetOptimizedCode returns in Concurrent mode:
\* info_->set_deferred_handles(deferred_.Detach())
CompilationHandleScopeExit(h) == Touch(h, "set_deferred_handles")

\* Variant of GetOptimizedCodeQueued that marks the closure whether or not
\* the job was queued.
GetOptimizedCodeQueuedOrNot(r, f) ==
  IF r.ok
    THEN Code(CompilationHandleScopeExit(
                SetOptimizationMarker(LogJob(r.h, r.job), f,
                                      kInOptimizationQueue)),
              IF FnIsInterpreted(r.h, f) THEN InterpreterEntryTrampoline
              ELSE CheckOptimizationMarker)
    ELSE Code(SetOptimizationMarker(DestroyJob(r.h, r.job), f,
                                    kInOptimizationQueue), NoCode)

\* Lines 845-855 of GetOptimizedCode, after GetOptimizedCodeLater, and the
\* exit of the CompilationHandleScope opened at line 834
GetOptimizedCodeQueued(r, f) ==
  IF r.ok
    THEN Code(CompilationHandleScopeExit(
                SetOptimizationMarker(LogJob(r.h, r.job), f,
                                      kInOptimizationQueue)),
              IF FnIsInterpreted(r.h, f) THEN InterpreterEntryTrampoline
              ELSE CheckOptimizationMarker)
    ELSE GetOptimizedCodeFailed(
           [r EXCEPT !.h = CompilationHandleScopeExit(r.h)])

\* Variant of GetOptimizedCodeCompiled that leaves the closure marked as
\* awaiting optimization when the compile failed.
GetOptimizedCodeCompiledMarks(r) ==
  IF r.ok THEN Code(DestroyJob(r.h, r.job), r.job.code)
  ELSE GetOptimizedCodeFailed(
         [r EXCEPT !.h = SetOptimizationMarker(r.h, r.job.f,
                                               kInOptimizationQueue)])

\* Line 857 of GetOptimizedCode: after GetOptimizedCodeNow
GetOptimizedCodeCompiled(r) ==
  IF r.ok THEN Code(DestroyJob(r.h, r.job), r.job.code)
  ELSE GetOptimizedCodeFailed(r)

\* Lines 790-862 of GetOptimizedCode: the eligibility checks and the compile
GetOptimizedCodeWithJob(h, job, f, mode, in) ==
  IF Ineligible(h) # kNoReason
    THEN Code(DestroyJob(LogCall(h, "AbortOptimization"),
                         InfoAbortOptimization(job, Ineligible(h))), NoCode)
  ELSE IF mode = kConcurrent
    THEN GetOptimizedCodeQueued(
           GetOptimizedCodeLater(
             h, [job EXCEPT !.from_bytecode = h.shared.bytecode], in), f)
  ELSE GetOptimizedCodeCompiled(
         GetOptimizedCodeNow(
           h, [job EXCEPT !.from_bytecode = h.shared.bytecode], in))

\* Variant of GetOptimizedCodeLookedUp that resets the profiler ticks before
\* it looks at the result of the lookup.
GetOptimizedCodeTicksFirst(cached, f, mode, osr, in) ==
  IF cached.code # NoCode
    THEN Code([cached.h EXCEPT !.log.hit = TRUE, !.vec.profiler_ticks = 0],
              cached.code)
    ELSE GetOptimizedCodeWithJob(
           [cached.h EXCEPT !.vec.profiler_ticks = 0,
                            !.log.constructed = @ + 1],
           NewOptimizingJob(f, mode, osr), f, mode, in)

\* Lines 758-788 of GetOptimizedCode: the cache hit returns; otherwise the
\* profiler ticks are reset and the job is constructed.
GetOptimizedCodeLookedUp(cached, f, mode, osr, in) ==
  IF cached.code # NoCode
    THEN Code([cached.h EXCEPT !.log.hit = TRUE], cached.code)
    ELSE GetOptimizedCodeWithJob(
           [cached.h EXCEPT !.vec.profiler_ticks = 0,
                            !.log.constructed = @ + 1],
           NewOptimizingJob(f, mode, osr), f, mode, in)

\* Variant of GetOptimizedCode that keeps the marker an earlier request left.
GetOptimizedCodeKeepsMarker(h, f, mode, osr, in) ==
  GetOptimizedCodeLookedUp(GetCodeFromOptimizedCodeCache(h, f, osr),
                           f, mode, osr, in)

\* GetOptimizedCode(function, mode, osr_ast_id, osr_frame)
GetOptimizedCode(h, f, mode, osr, in) ==
  GetOptimizedCodeLookedUp(
    GetCodeFromOptimizedCodeCache(
      IF HasOptimizationMarker(h, f) THEN ClearOptimizationMarker(h, f)
      ELSE h, f, osr),
    f, mode, osr, in)

\* Lines 1127-1136 of CompileOptimized: the postconditions
CompileOptimizedInstalled(h, f, mode) ==
  LogRet(Check(Check(h, ~h.pending, "CompileOptimized:pending"),
               HasOptimizationMarker(h, f)
                 => /\ IsInOptimizationQueue(h, f)
                    /\ ChecksOptimizationMarker(h, f)
                    /\ mode = kConcurrent,
               "CompileOptimized:marker"),
         "true")

\* Lines 1115-1125 of CompileOptimized: the code to install
CompileOptimizedGot(r, f, mode) ==
  CompileOptimizedInstalled(
    ReplaceCode(r.h, f, IF r.code # NoCode THEN r.code ELSE r.h.shared.code),
    f, mode)

\* Compiler::CompileOptimized(function, mode)
\* Variant of CompileOptimized without the early return of line 1109.
CompileOptimizedAlways(h, f, mode, in) ==
  CompileOptimizedGot(GetOptimizedCode(h, f, mode, FALSE, in), f, mode)
CompileOptimized(h, f, mode, in) ==
  IF FnIsOptimized(h, f) THEN LogRet(h, "true")
  ELSE CompileOptimizedGot(GetOptimizedCode(h, f, mode, FALSE, in), f, mode)

\* The value GetOptimizedCodeForOSR returns
ReturnCode(r) == LogRet(r.h, IF r.code # NoCode THEN "code" ELSE "empty")

\* Compiler::GetOptimizedCodeForOSR(function, osr_ast_id, osr_frame)
GetOptimizedCodeForOSR(h, f, in) ==
  ReturnCode(GetOptimizedCode(h, f, kNotConcurrent, TRUE, in))

\* Variant of FinalizeOptimizedFailed that leaves the closure as it is.
FinalizeOptimizedFailedKeepsClosure(h, job) ==
  Result(Check(h, job.state = kFailed, "FinalizeOptimized:state"), job,
         FAILED)

\* Variant of FinalizeOptimizedFailed that leaves the marker on the closure.
FinalizeOptimizedFailedKeepsMarker(h, job) ==
  Result(ReplaceCode(Check(h, job.state = kFailed, "FinalizeOptimized:state"),
                     job.f, h.shared.code),
         job, FAILED)

\* Lines 906-918 of FinalizeOptimizedCompilationJob: the failure path
FinalizeOptimizedFailed(h, job) ==
  Result(
    IF IsInOptimizationQueue(h, job.f)
      THEN ClearOptimizationMarker(
             ReplaceCode(Check(h, job.state = kFailed,
                               "FinalizeOptimized:state"),
                         job.f, h.shared.code), job.f)
      ELSE ReplaceCode(Check(h, job.state = kFailed,
                             "FinalizeOptimized:state"),
                       job.f, h.shared.code),
    job, FAILED)

\* Variant of FinalizeOptimizedFinalized that swaps the code of the closure
\* before it inserts the code into the cache.
FinalizeOptimizedInstallsFirst(fj) ==
  IF fj.status = SUCCEEDED
    THEN Result(
           LogOrder(
             InsertCodeIntoOptimizedCodeCache(
               LogOrder(ReplaceCode(fj.h, fj.job.f, fj.job.code),
                        "ReplaceCode"),
               fj.job),
             "Insert"),
           fj.job, SUCCEEDED)
    ELSE FinalizeOptimizedFailed(fj.h, fj.job)

\* Lines 891-902 of FinalizeOptimizedCompilationJob: after FinalizeJob
FinalizeOptimizedFinalized(fj) ==
  IF fj.status = SUCCEEDED
    THEN Result(
           LogOrder(
             ReplaceCode(
               LogOrder(InsertCodeIntoOptimizedCodeCache(fj.h, fj.job),
                        "Insert"),
               fj.job.f, fj.job.code),
             "ReplaceCode"),
           fj.job, SUCCEEDED)
    ELSE FinalizeOptimizedFailed(fj.h, fj.job)

\* Variant of FinalizeOptimizedCases that checks the dependencies before the
\* optimization_disabled flag.
FinalizeOptimizedDependencyFirst(h, job, fin, ctx) ==
  IF job.state # kReadyToFinalize THEN FinalizeOptimizedFailed(h, job)
  ELSE IF job.aborted
    THEN FinalizeOptimizedFailed(
           LogCall(h, "RetryOptimization"),
           RetryOptimization(job, kBailedOutDueToDependencyChange))
  ELSE IF h.shared.optimization_disabled
    THEN FinalizeOptimizedFailed(
           LogCall(h, "RetryOptimization"),
           RetryOptimization(job, kOptimizationDisabled))
  ELSE FinalizeOptimizedFinalized(FinalizeJob(h, job, fin, ctx))

\* Variant of FinalizeOptimizedCases without the dependency check of line 889.
FinalizeOptimizedNoDependencyCheck(h, job, fin, ctx) ==
  IF job.state # kReadyToFinalize THEN FinalizeOptimizedFailed(h, job)
  ELSE IF h.shared.optimization_disabled
    THEN FinalizeOptimizedFailed(
           LogCall(h, "RetryOptimization"),
           RetryOptimization(job, kOptimizationDisabled))
  ELSE FinalizeOptimizedFinalized(FinalizeJob(h, job, fin, ctx))

\* Lines 886-904 of FinalizeOptimizedCompilationJob: the four cases
FinalizeOptimizedCases(h, job, fin, ctx) ==
  IF job.state # kReadyToFinalize THEN FinalizeOptimizedFailed(h, job)
  ELSE IF h.shared.optimization_disabled
    THEN FinalizeOptimizedFailed(
           LogCall(h, "RetryOptimization"),
           RetryOptimization(job, kOptimizationDisabled))
  ELSE IF job.aborted
    THEN FinalizeOptimizedFailed(
           LogCall(h, "RetryOptimization"),
           RetryOptimization(job, kBailedOutDueToDependencyChange))
  ELSE FinalizeOptimizedFinalized(FinalizeJob(h, job, fin, ctx))

\* FinalizeOptimizedCompilationJob(job)
FinalizeOptimizedCompilationJob(h, job, fin, ctx) ==
  FinalizeOptimizedCases(
    Check([h EXCEPT !.vec.profiler_ticks = 0], ~h.shared.break_info,
          "FinalizeOptimized:HasBreakInfo"),
    job, fin, ctx)

\* ----------------------------------------------------- unoptimized tier
\* Variant of ShouldUseFullCodegen that asks for the asm function first.
ShouldUseFullCodegenAsmFirst(must_use_ignition, asm_function, stress_fullcodegen) ==
  IF asm_function THEN TRUE
  ELSE IF must_use_ignition THEN FALSE
  ELSE stress_fullcodegen

\* bool ShouldUseFullCodegen(FunctionLiteral* literal)
ShouldUseFullCodegen(must_use_ignition, asm_function, stress_fullcodegen) ==
  IF must_use_ignition THEN FALSE
  ELSE IF asm_function THEN TRUE
  ELSE stress_fullcodegen

\* bool UseAsmWasm(scope, shared_info, is_debug)
UseAsmWasm(validate_asm, broken, is_debug, stress_validate_asm, asm_module) ==
  IF ~validate_asm THEN FALSE
  ELSE IF broken THEN FALSE
  ELSE IF is_debug THEN FALSE
  ELSE IF stress_validate_asm THEN TRUE
  ELSE asm_module

\* GetUnoptimizedCompilationJob(parse_info, compilation_info)
GetUnoptimizedCompilationJob(debug) ==
  [NewJob(IF ShouldUseFullCodegen(literal.must_use_ignition,
                                  literal.asm_function,
                                  flags.stress_fullcodegen)
            THEN "fullcodegen" ELSE "ignition",
          NoClosure, FALSE, kNotConcurrent) EXCEPT !.debug = debug]

\* AsmJs::NewCompilationJob(parse_info, compilation_info)
NewAsmJob(debug) ==
  [NewJob("asmjs", NoClosure, FALSE, kNotConcurrent) EXCEPT !.debug = debug]

\* Where a job of the unoptimized tier fails, if it does.
FailPoints == {"none", "Prepare", "Execute", "Finalize"}
ImplAt(fail, phase) == IF fail = phase THEN FAILED ELSE SUCCEEDED

\* What the external collaborators answer during one unoptimized compile:
\* the parser, the analyzer, the asm.js validator, the baseline backend and
\* the compile of the eager inner functions; exc: the failing one throws.
UnoptInputs ==
  [parse : BOOLEAN, analyze : BOOLEAN, exc : BOOLEAN, asm_fail : FailPoints,
   fail : FailPoints, inner : 0..MaxInner, inner_ok : BOOLEAN]

\* A failing step of the analyzer or backend may leave an error pending on
\* the isolate (exc) or none.
Throws(h, exc) == IF exc THEN [h EXCEPT !.pending = TRUE] ELSE h

\* Isolate::StackOverflow()
StackOverflow(h) == LogCall([h EXCEPT !.pending = TRUE], "StackOverflow")

\* Variant of EnsurePending that raises nothing.
EnsurePendingNever(h) == h

\* if (!isolate->has_pending_exception()) isolate->StackOverflow();
EnsurePending(h) == IF h.pending THEN h ELSE StackOverflow(h)

\* Lines 344-349 of InstallUnoptimizedCode: bytecode or asm.js data
InstallUnoptimizedData(h, job) ==
  IF job.kind = "ignition"
    THEN [Check(h, ~h.shared.bytecode, "Install:HasBytecodeArray") EXCEPT
            !.shared.bytecode = TRUE]
  ELSE IF job.kind = "asmjs" THEN [h EXCEPT !.shared.asm_wasm_data = TRUE]
  ELSE h

\* InstallUnoptimizedCode(compilation_info)
InstallUnoptimizedCode(h, job) ==
  InstallUnoptimizedData(
    [LogCall(h, "InstallUnoptimizedCode") EXCEPT
       !.shared.scope_info = TRUE,
       !.shared.bytecode = IF job.debug /\ job.kind = "ignition" THEN FALSE
                           ELSE @,
       !.shared.code = job.code],
    job)

\* SetSharedFunctionFlagsFromLiteral(literal, shared_info)
SetSharedFunctionFlagsFromLiteral(h) ==
  IF literal.dont_optimize THEN DisableOptimization(h, kDontOptimize)
  ELSE h

\* Variant of FinalizeUnoptimizedFinalized that installs the code whatever
\* FinalizeJob answers.
FinalizeUnoptimizedInstallsAlways(fj, exc) ==
  Result(InstallUnoptimizedCode(Throws(fj.h, exc /\ fj.status # SUCCEEDED),
                                fj.job),
         fj.job, fj.status)

\* Lines 414-425 of FinalizeUnoptimizedCompilationJob: after FinalizeJob
FinalizeUnoptimizedFinalized(fj, exc) ==
  IF fj.status = SUCCEEDED
    THEN Result(InstallUnoptimizedCode(fj.h, fj.job), fj.job, SUCCEEDED)
    ELSE Result(Throws(fj.h, exc), fj.job, FAILED)

\* FinalizeUnoptimizedCompilationJob(job)
FinalizeUnoptimizedCompilationJob(h, job, impl, exc) ==
  FinalizeUnoptimizedFinalized(
    FinalizeJob(SetSharedFunctionFlagsFromLiteral(h), job, impl, FALSE), exc)

\* Lines 438-440 of RunUnoptimizedCompilationJob: each phase runs only if
\* the one before succeeded.
ThenExecuteUnoptimized(p, fail) ==
  IF p.status = SUCCEEDED
    THEN ExecuteJob(p.h, p.job, ImplAt(fail, "Execute"), "isolate")
    ELSE p
ThenFinalizeUnoptimized(e, fail, exc) ==
  IF e.status = SUCCEEDED
    THEN FinalizeUnoptimizedCompilationJob(e.h, e.job,
                                           ImplAt(fail, "Finalize"), exc)
    ELSE Result(Throws(e.h, exc), e.job, FAILED)
RunUnoptimizedDone(r) ==
  Answer(LogJob([r.h EXCEPT !.log.constructed = @ + 1], r.job), r.job,
         r.status = SUCCEEDED)

\* RunUnoptimizedCompilationJob(job)
RunUnoptimizedCompilationJob(h, job, fail, exc) ==
  RunUnoptimizedDone(
    ThenFinalizeUnoptimized(
      ThenExecuteUnoptimized(PrepareJob(h, job, ImplAt(fail, "Prepare")),
                             fail),
      fail, exc))

\* Variant of GenerateUnoptimizedFallback that reports the failed validation.
GenerateUnoptimizedNoFallback(asm, debug, in) == asm

\* Lines 450-454 of GenerateUnoptimizedCode: a failed asm.js validation falls
\* through to the standard unoptimized compile.
GenerateUnoptimizedFallback(asm, debug, in) ==
  IF asm.ok THEN asm
  ELSE RunUnoptimizedCompilationJob(asm.h, GetUnoptimizedCompilationJob(debug),
                                    in.fail, in.exc)

\* GenerateUnoptimizedCode(parse_info, compilation_info)
GenerateUnoptimizedCode(h, debug, in) ==
  IF UseAsmWasm(flags.validate_asm, h.shared.asm_wasm_broken, debug,
                flags.stress_validate_asm, literal.asm_module)
    THEN GenerateUnoptimizedFallback(
           RunUnoptimizedCompilationJob(h, NewAsmJob(debug), in.asm_fail,
                                        FALSE),
           debug, in)
    ELSE RunUnoptimizedCompilationJob(h, GetUnoptimizedCompilationJob(debug),
                                      in.fail, in.exc)

\* CompileUnoptimizedInnerFunctions(literals, outer_parse_info, outer_info):
\* in.inner eager inner literals that are not compiled yet; the code of an
\* inner function is installed on its own descriptor.
CompileUnoptimizedInnerFunctions(h, in) ==
  IF in.inner = 0 \/ in.inner_ok
    THEN [h |-> LogCall(h, "CompileUnoptimizedInnerFunctions"), ok |-> TRUE]
    ELSE [h |-> EnsurePending(
                  Throws(LogCall(h, "CompileUnoptimizedInnerFunctions"),
                         in.exc)),
          ok |-> FALSE]

\* Lines 540-548 of CompileUnoptimizedCode
CompileUnoptimizedInner(i, job) ==
  IF i.ok THEN Answer(i.h, job, TRUE)
  ELSE Answer(EnsurePending(i.h), job, FALSE)
CompileUnoptimizedGenerated(g, in) ==
  IF ~g.ok THEN Answer(EnsurePending(g.h), g.job, FALSE)
  ELSE CompileUnoptimizedInner(CompileUnoptimizedInnerFunctions(g.h, in),
                               g.job)

\* CompileUnoptimizedCode(parse_info, compilation_info)
CompileUnoptimizedCode(h, debug, in) ==
  IF ~in.analyze
    THEN Answer(EnsurePending(Throws(LogCall(h, "Analyze"), in.exc)), NoJob,
                FALSE)
    ELSE CompileUnoptimizedGenerated(
           GenerateUnoptimizedCode(LogCall(h, "Analyze"), debug, in), in)

\* CompileUnoptimizedFunction(parse_info, compilation_info, shared_info):
\* ok, with the code of the CompilationInfo in job.code, or failure.
CompileUnoptimizedFunction(h, debug, in) ==
  IF ~in.parse
    THEN Answer([LogCall(h, "ParseFunction") EXCEPT !.pending = TRUE], NoJob,
                FALSE)
    ELSE CompileUnoptimizedCode(LogCall(h, "ParseFunction"), debug, in)

\* Lines 932-948 of GetLazyCode: the descriptor is compiled already
GetLazyCodeCached(c) ==
  IF c.code # NoCode THEN Code([c.h EXCEPT !.log.hit = TRUE], c.code)
  ELSE Code(c.h, c.h.shared.code)

\* Lines 984-987 of GetLazyCode: the optimized code replaces the result
GetLazyCodeOptimized(opt, result) ==
  Code(opt.h, IF opt.code # NoCode THEN opt.code ELSE result)

\* Lines 968-990 of GetLazyCode: after CompileUnoptimizedFunction
GetLazyCodeCompiled(c, f, oin) ==
  IF ~c.ok THEN Code(c.h, NoCode)
  ELSE IF flags.always_opt /\ ~c.h.shared.asm_wasm_data
    THEN GetLazyCodeOptimized(
           GetOptimizedCode(EnsureLiterals(c.h), f, kNotConcurrent, FALSE,
                            oin),
           c.job.code)
  ELSE Code(c.h, c.job.code)

\* Variant of GetLazyCode without the is_compiled check of line 931.
GetLazyCodeAlwaysCompiles(h, f, in, oin) ==
  GetLazyCodeCompiled(CompileUnoptimizedFunction(h, FALSE, in), f, oin)

\* GetLazyCode(function)
GetLazyCode(h, f, in, oin) ==
  IF SharedIsCompiled(h)
    THEN GetLazyCodeCached(GetCodeFromOptimizedCodeCache(h, f, FALSE))
    ELSE GetLazyCodeCompiled(
           CompileUnoptimizedFunction(
             Check(h, ~h.shared.bytecode, "GetLazyCode:HasBytecodeArray"),
             FALSE, in),
           f, oin)

\* Lines 1658-1661 of PrepareUnoptimizedCompilationJob
PrepareUnoptimizedDone(p) ==
  IF p.status # SUCCEEDED THEN Answer(LogJob(p.h, p.job), NoJob, FALSE)
  ELSE Answer(p.h, p.job, TRUE)

\* Compiler::PrepareUnoptimizedCompilationJob(parse_info, compilation_info)
PrepareUnoptimizedCompilationJob(h, impl) ==
  PrepareUnoptimizedDone(
    PrepareJob([h EXCEPT !.log.constructed = @ + 1],
               GetUnoptimizedCompilationJob(FALSE), impl))

\* Lines 1664-1676: the job is destroyed when FinalizeCompilationJob returns
FinalizeCompilationJobDone(r) ==
  LogRet(DestroyJob(r.h, r.job),
         IF r.status = SUCCEEDED THEN "true" ELSE "false")

\* Compiler::FinalizeCompilationJob(raw_job)
FinalizeCompilationJob(h, job, impl, ctx, exc) ==
  FinalizeCompilationJobDone(
    IF IsOptimizing(job)
      THEN FinalizeOptimizedCompilationJob(h, job, impl, ctx)
      ELSE FinalizeUnoptimizedCompilationJob(h, job, impl, exc))

\* CompilerDispatcher::IsEnqueued(shared)
IsEnqueued(h) == h.cdjob # NoJob

\* CompilerDispatcher::FinishNow(shared): runs what is left of the enqueued
\* job on the isolate thread and reports whether it succeeded.
FinishNowFinalized(h) ==
  IF h.log.ret = "true" THEN [h |-> h, ok |-> TRUE]
  ELSE [h |-> EnsurePending(h), ok |-> FALSE]
FinishNowExecuted(e, in) ==
  IF e.job.state # kReadyToFinalize
    THEN [h |-> EnsurePending(LogJob(e.h, e.job)), ok |-> FALSE]
    ELSE FinishNowFinalized(
           FinalizeCompilationJob(e.h, e.job, ImplAt(in.fail, "Finalize"),
                                  FALSE, in.exc))
FinishNowTaken(h, job, in) ==
  FinishNowExecuted(
    IF job.state = kReadyToExecute
      THEN ExecuteJob(h, job, ImplAt(in.fail, "Execute"), "isolate")
      ELSE Result(h, job, SUCCEEDED),
    in)
FinishNow(h, in) ==
  FinishNowTaken(LogCall([h EXCEPT !.cdjob = NoJob], "FinishNow"), h.cdjob,
                 in)

\* Variant of CompileFailed that ignores the ClearExceptionFlag.
CompileFailedKeepsException(h, flag) == LogRet(h, "false")

\* Lines 1081-1083 and 1089-1092 of Compile: the failure
CompileFailed(h, flag) ==
  LogRet(IF flag = "CLEAR_EXCEPTION" THEN [h EXCEPT !.pending = FALSE] ELSE h,
         "false")

\* Lines 1095-1104 of Compile: install the code, check the postconditions
CompileInstalled(h, f) ==
  LogRet(Check(h, ~h.pending /\ SharedIsCompiled(h) /\ FnIsCompiled(h, f),
               "Compile:postcondition"),
         "true")
CompileInstall(h, f, code) ==
  CompileInstalled(EnsureLiterals(ReplaceCode(h, f, code)), f)

\* Lines 1079-1086 of Compile: after CompilerDispatcher::FinishNow
CompileFinished(fin, f, flag) ==
  IF ~fin.ok THEN CompileFailed(fin.h, flag)
  ELSE CompileInstall(fin.h, f, fin.h.shared.code)

\* Lines 1087-1093 of Compile: after GetLazyCode
CompileGot(lazy, f, flag) ==
  IF lazy.code = NoCode THEN CompileFailed(lazy.h, flag)
  ELSE CompileInstall(lazy.h, f, lazy.code)

\* Variant of Compile that does not return while the optimizing dispatcher
\* holds a job.
CompileAwaitsOptimization(h, f, flag, in, oin) ==
  IF FnIsCompiled(h, f) THEN LogRet(h, "true")
  ELSE IF h.queue # EmptyBag THEN h
  ELSE IF IsEnqueued(h) THEN CompileFinished(FinishNow(h, in), f, flag)
  ELSE CompileGot(GetLazyCode(h, f, in, oin), f, flag)

\* Compiler::Compile(function, flag)
Compile(h, f, flag, in, oin) ==
  IF FnIsCompiled(h, f) THEN LogRet(h, "true")
  ELSE IF IsEnqueued(h) THEN CompileFinished(FinishNow(h, in), f, flag)
  ELSE CompileGot(GetLazyCode(h, f, in, oin), f, flag)

\* Lines 1150-1167 of CompileDebugCode
CompileDebugCodeDone(c) ==
  IF ~c.ok THEN LogRet([c.h EXCEPT !.pending = FALSE], "false")
  ELSE LogRet(Check(c.h, ~c.h.pending /\ SharedIsCompiled(c.h),
                    "CompileDebugCode:postcondition"),
              "true")

\* Compiler::CompileDebugCode(shared), for a descriptor that is not toplevel
CompileDebugCode(h, in) ==
  CompileDebugCodeDone(CompileUnoptimizedFunction(h, TRUE, in))

\* JSFunction::MarkForOptimization(ConcurrencyMode::kNotConcurrent)
MarkForOptimization(h, f) == SetOptimizationMarker(h, f, kCompileOptimized)

\* JSFunction::HasOptimizedCode
HasOptimizedCode(h, f) ==
  FnIsOptimized(h, f) \/ (h.vec.exists /\ h.vec.optimized_code # NoCode)

\* Lines 1682-1693 of PostInstantiation
PostInstantiationMark(h, f) ==
  IF flags.always_opt /\ ~h.shared.optimization_disabled
     /\ ~h.shared.asm_wasm_data /\ SharedIsCompiled(h)
    THEN IF ~FnIsOptimized(h, f) /\ ~HasOptimizedCode(EnsureLiterals(h), f)
           THEN MarkForOptimization(EnsureLiterals(h), f)
           ELSE EnsureLiterals(h)
    ELSE h

\* Lines 1695-1706 of PostInstantiation
PostInstantiationInstall(h, f) ==
  IF ~SharedIsCompiled(h) THEN h
  ELSE IF h.vec.optimized_code # NoCode
    THEN ReplaceCode(
           Check(EnsureLiterals(h),
                 ~MarkedForDeoptimization(h, h.vec.optimized_code),
                 "PostInstantiation:marked_for_deoptimization"),
           f, h.vec.optimized_code)
  ELSE EnsureLiterals(h)

\* Compiler::PostInstantiation(function, pretenure)
PostInstantiation(h, f) ==
  PostInstantiationInstall(PostInstantiationMark(h, f), f)

\* --------------------------------------------------------------- history
\* The state a phase requires, the state it moves to on success, and the
\* phases that have run on a job before it.
Required(op) ==
  CASE op = "Prepare" -> kReadyToPrepare
    [] op = "Execute" -> kReadyToExecute
    [] op = "Finalize" -> kReadyToFinalize
Successor(op) ==
  CASE op = "Prepare" -> kReadyToExecute
    [] op = "Execute" -> kReadyToFinalize
    [] op = "Finalize" -> kSucceeded
RanBefore(op) ==
  CASE op = "Prepare" -> <<>>
    [] op = "Execute" -> <<"Prepare">>
    [] op = "Finalize" -> <<"Prepare", "Execute">>

\* The step is the next one of the linear order and the first of its kind on
\* its job.
Linear(s) ==
  /\ s.from = Required(s.op)
  /\ s.to \in {Successor(s.op), kFailed}
  /\ s.ran = RanBefore(s.op)

\* A phase that ran on the thread it may run on: Prepare and Finalize on the
\* isolate thread, Execute elsewhere only for a job of the optimizing tier
\* requested in Concurrent mode.
OnItsThread(s) ==
  /\ s.op \in {"Prepare", "Finalize"} => s.thread = "isolate"
  /\ s.thread # "isolate"
       => /\ s.op = "Execute"
          /\ s.kind = "turbofan"
          /\ s.mode = kConcurrent

\* The state assertions of the three phases.
StateAssertions == {"PrepareJob:state", "ExecuteJob:state", "FinalizeJob:state"}
InState(r) == r.log.asserts \cap StateAssertions = {}
\* The assertions of the job contract: the state of the job, the thread of
\* Execute and the dependencies at the entry of Finalize.
JobAssertions ==
  StateAssertions \cup {"ExecuteJob:thread", "FinalizeJob:HasAborted"}

TerminalStates == {kSucceeded, kFailed}

\* What a call that ends in heap h has done that the contract of the job
\* rules out: a state assertion of a phase failed, a phase ran out of the
\* linear order or a second time, ran on a job in a terminal state, or ran on
\* a thread it must not run on.
Observed(h) ==
  (h.log.asserts \cap JobAssertions)
       \cup {"linear" : i \in {k \in DOMAIN h.log.steps :
                                 ~Linear(h.log.steps[k])}}
       \cup {"terminal" : i \in {k \in DOMAIN h.log.steps :
                                   h.log.steps[k].from \in TerminalStates}}
       \cup {"thread" : i \in {k \in DOMAIN h.log.steps :
                                 ~OnItsThread(h.log.steps[k])}}

\* The call that ends in heap h has kept the contract of the job.
Kept(h) ==
  /\ h.log.asserts \cap JobAssertions = {}
  /\ \A k \in DOMAIN h.log.steps :
       Linear(h.log.steps[k]) /\ OnItsThread(h.log.steps[k])

\* The history of the execution: everything observed in the calls so far.
Remember(h) ==
  IF h.log = NoLog \/ Kept(h) THEN h
  ELSE [h EXCEPT !.history = @ \cup Observed(h)]

\* ----------------------------------------------------------------- state
DefaultFlags ==
  [opt |-> TRUE, always_opt |-> FALSE, stress_fullcodegen |-> FALSE,
   validate_asm |-> FALSE, stress_validate_asm |-> FALSE]
DefaultLiteral ==
  [must_use_ignition |-> FALSE, asm_function |-> FALSE, asm_module |-> FALSE,
   dont_optimize |-> FALSE]

\* The descriptor is not compiled, no closure has code, nothing is queued.
Start ==
  heap = [shared |-> [code |-> CompileLazy, bytecode |-> FALSE,
                      asm_wasm_data |-> FALSE, asm_wasm_broken |-> FALSE,
                      scope_info |-> FALSE, optimization_disabled |-> FALSE,
                      disable_reason |-> kNoReason, break_info |-> FALSE],
          vec |-> [exists |-> FALSE, optimized_code |-> NoCode,
                   profiler_ticks |-> 0],
          fn |-> [f \in Closures |-> [code |-> CompileLazy, marker |-> kNone]],
          marked |-> {}, queue |-> EmptyBag, cdjob |-> NoJob,
          pending |-> FALSE, history |-> {}, log |-> NoLog]

\* The default configuration: bytecode tier, optimizer on.
Init == flags = DefaultFlags /\ literal = DefaultLiteral /\ Start

\* The identity of a code object is its address, which the program cannot
\* observe: the live optimized code objects are numbered in the order in
\* which the slot and the closures refer to them, and the others are
\* collected.
Holders(h) ==
  <<h.vec.optimized_code>>
  \o [i \in 1..Len(ClosureSeq) |-> h.fn[ClosureSeq[i]].code]
Collect(h) ==
  LET hs == Holders(h)
      opt == {i \in 1..Len(hs) : hs[i].kind = "OPTIMIZED_FUNCTION"}
      first == {i \in opt : \A k \in opt : k < i => hs[k] # hs[i]}
      number == [i \in opt |->
                   Cardinality({k \in first :
                     \E m \in first : m <= i /\ hs[m] = hs[i] /\ k <= m})]
      renumbered == [i \in 1..Len(hs) |->
                       IF i \in opt THEN OptCode(number[i]) ELSE hs[i]]
  IN [h EXCEPT !.vec.optimized_code = renumbered[1],
               !.fn = [f \in Closures |->
                         [h.fn[f] EXCEPT !.code =
                            renumbered[1 + CHOOSE i \in 1..Len(ClosureSeq) :
                                             ClosureSeq[i] = f]]],
               !.marked = {number[i] :
                             i \in {k \in opt : hs[k].id \in h.marked}},
               !.log = NoLog]

\* The new state is the heap a handler returns.
Commit(h) ==
  /\ heap' = Collect(Remember(h))
  /\ UNCHANGED <<flags, literal>>

\* The answers of the collaborators that one call can observe, each case
\* once: a phase after a failed one does not run, the parser runs only when
\* there is no bytecode to optimize from, admission is asked in Concurrent
\* mode only, and Execute and Finalize do not run inside a Concurrent request.
NoOpt ==
  [parse |-> TRUE, prep |-> SUCCEEDED, ctx |-> FALSE, exec |-> SUCCEEDED,
   fin |-> SUCCEEDED, queue_available |-> TRUE, high_memory |-> FALSE]
PhaseInputs ==
  {[NoOpt EXCEPT !.ctx = c] : c \in BOOLEAN}
  \cup {[NoOpt EXCEPT !.prep = o] : o \in {FAILED, "ABORT"}}
  \cup {[NoOpt EXCEPT !.exec = FAILED]}
  \cup {[NoOpt EXCEPT !.fin = o] : o \in {FAILED, "ABORT"}}
ParseInputs(from_bytecode) ==
  IF from_bytecode THEN {} ELSE {[NoOpt EXCEPT !.parse = FALSE]}
SyncInputs(from_bytecode) == PhaseInputs \cup ParseInputs(from_bytecode)
ConcurrentInputs(from_bytecode) ==
  {i \in PhaseInputs : i.exec = SUCCEEDED /\ i.fin = SUCCEEDED /\ ~i.ctx}
  \cup ParseInputs(from_bytecode)
  \cup {[NoOpt EXCEPT !.queue_available = FALSE],
        [NoOpt EXCEPT !.high_memory = TRUE]}
InputsFor(mode, from_bytecode) ==
  IF mode = kConcurrent THEN ConcurrentInputs(from_bytecode)
  ELSE SyncInputs(from_bytecode)

NoUnopt ==
  [parse |-> TRUE, analyze |-> TRUE, exc |-> FALSE, asm_fail |-> "none",
   fail |-> "none", inner |-> 0, inner_ok |-> TRUE]
JobInputs ==
  {NoUnopt}
  \cup {[NoUnopt EXCEPT !.fail = p, !.exc = e] :
          p \in FailPoints \ {"none"}, e \in BOOLEAN}
InnerInputs ==
  {[NoUnopt EXCEPT !.inner = n] : n \in 1..MaxInner}
  \cup {[NoUnopt EXCEPT !.inner = n, !.inner_ok = FALSE, !.exc = e] :
          n \in 1..MaxInner, e \in BOOLEAN}
AsmInputs(use_asm) ==
  IF use_asm
    THEN {[i EXCEPT !.asm_fail = p] :
            i \in JobInputs, p \in FailPoints \ {"none"}}
    ELSE {}
UnoptInputsFor(use_asm) ==
  JobInputs \cup InnerInputs \cup AsmInputs(use_asm)
  \cup {[NoUnopt EXCEPT !.parse = FALSE, !.exc = TRUE]}
  \cup {[NoUnopt EXCEPT !.analyze = FALSE, !.exc = e] : e \in BOOLEAN}
UnoptOk(in) ==
  in.parse /\ in.analyze /\ in.fail = "none" /\ in.inner_ok
UsesAsm(debug) ==
  UseAsmWasm(flags.validate_asm, shared.asm_wasm_broken, debug,
             flags.stress_validate_asm, literal.asm_module)

\* --------------------------------------------------------------- actions
\* Compiler::Compile(function, flag) on the isolate thread
CompileInputs(f) ==
  IF FnIsCompiled(heap, f) \/ SharedIsCompiled(heap)
    THEN {NoUnopt} ELSE UnoptInputsFor(UsesAsm(FALSE))
CompileOptInputs(f, in) ==
  IF flags.always_opt /\ ~FnIsCompiled(heap, f) /\ ~SharedIsCompiled(heap)
     /\ ~IsEnqueued(heap) /\ UnoptOk(in)
    THEN SyncInputs(~ShouldUseFullCodegen(literal.must_use_ignition,
                      literal.asm_function, flags.stress_fullcodegen))
    ELSE {NoOpt}
CompileFrom(h, f, flag, in, oin) ==
  Compile(BeginAt(h, "Compile", f, kNone, FALSE), f, flag, in, oin)
CompileCall(f, flag, in, oin) == CompileFrom(heap, f, flag, in, oin)
CompileAct ==
  \E f \in Closures, flag \in {"KEEP_EXCEPTION", "CLEAR_EXCEPTION"} :
  \E in \in CompileInputs(f) :
  \E oin \in CompileOptInputs(f, in) :
    /\ ~pending
    /\ Commit(CompileCall(f, flag, in, oin))

\* The answers a request reads: none when it returns from the cache or is
\* ineligible, and the queue is available only below its capacity.
Reads(f, osr) ==
  /\ GetCodeFromOptimizedCodeCache(heap, f, osr).code = NoCode
  /\ Ineligible(heap) = kNoReason
RequestInputs(f, mode, osr) ==
  IF ~Reads(f, osr) THEN {NoOpt}
  ELSE {in \in InputsFor(mode, shared.bytecode) :
          mode = kConcurrent /\ in.queue_available /\ ~in.high_memory
            => BagCardinality(queue) < MaxJobs}

\* Compiler::CompileOptimized(function, mode) on the isolate thread, for a
\* closure of a compiled descriptor
CompileOptimizedInputs(f, mode) ==
  IF FnIsOptimized(heap, f) THEN {NoOpt} ELSE RequestInputs(f, mode, FALSE)
CompileOptimizedEnabled(f) ==
  ~pending /\ SharedIsCompiled(heap) /\ vec.exists
CompileOptimizedFrom(h, f, mode, in) ==
  CompileOptimized(BeginAt(h, "CompileOptimized", f, mode, FALSE), f, mode,
                   in)
CompileOptimizedCall(f, mode, in) == CompileOptimizedFrom(heap, f, mode, in)
CompileOptimizedAct ==
  \E f \in Closures, mode \in {kConcurrent, kNotConcurrent} :
  \E in \in CompileOptimizedInputs(f, mode) :
    /\ CompileOptimizedEnabled(f)
    /\ Commit(CompileOptimizedCall(f, mode, in))

\* Compiler::GetOptimizedCodeForOSR for a running activation of closure f
OSREnabled(f) ==
  ~pending /\ SharedIsCompiled(heap) /\ FnIsCompiled(heap, f) /\ vec.exists
OSRCall(f, in) ==
  GetOptimizedCodeForOSR(
    Begin("GetOptimizedCodeForOSR", f, kNotConcurrent, TRUE), f, in)
GetOptimizedCodeForOSRAct ==
  \E f \in Closures :
  \E in \in RequestInputs(f, kNotConcurrent, TRUE) :
    /\ OSREnabled(f)
    /\ Commit(OSRCall(f, in))

\* The background thread runs the Execute phase of a queued job.
Requeue(h, old, new) ==
  [h EXCEPT !.queue = (@ (-) SetToBag({old})) (+) SetToBag({new})]
BackgroundExecuted(r, job) == Requeue(r.h, job, r.job)
BackgroundExecute ==
  \E job \in BagToSet(queue), impl \in {SUCCEEDED, FAILED} :
    /\ job.state = kReadyToExecute
    /\ Commit(BackgroundExecuted(
                ExecuteJob(Begin("Execute", job.f, job.mode, job.osr), job,
                           impl, "background"),
                job))

\* The dispatcher hands an executed job back: Compiler::FinalizeCompilationJob.
\* While the job was queued a code dependency of it may have been invalidated
\* on the isolate thread: `aborted' is what dependencies()->HasAborted()
\* answers when the job comes back.  That answer is read only for a job that
\* is ready to finalize on a descriptor that is not optimization-disabled,
\* and the answers of the backend only if the dependencies have not aborted.
FinalizeEnabled(job) == ~pending /\ job.state # kReadyToExecute
FinalizeInput(job, impl, ctx, aborted) ==
  /\ aborted
       => job.state = kReadyToFinalize /\ ~shared.optimization_disabled
  /\ impl # SUCCEEDED
       => /\ job.state = kReadyToFinalize
          /\ ~shared.optimization_disabled
          /\ ~aborted
  /\ ctx
       => /\ impl = SUCCEEDED
          /\ job.state = kReadyToFinalize
          /\ ~shared.optimization_disabled
          /\ ~aborted
Dequeued(h, job) == [h EXCEPT !.queue = @ (-) SetToBag({job})]
FinalizeFrom(h, job, impl, ctx, aborted) ==
  FinalizeCompilationJob(
    Dequeued(BeginAt(h, "FinalizeCompilationJob", job.f, job.mode, job.osr),
             job),
    [job EXCEPT !.aborted = aborted], impl, ctx, FALSE)
FinalizeCall(job, impl, ctx, aborted) ==
  FinalizeFrom(heap, job, impl, ctx, aborted)
FinalizeCompilationJobAct ==
  \E job \in BagToSet(queue), impl \in ImplOutcomes :
  \E ctx \in BOOLEAN, aborted \in BOOLEAN :
    /\ FinalizeEnabled(job)
    /\ FinalizeInput(job, impl, ctx, aborted)
    /\ Commit(FinalizeCall(job, impl, ctx, aborted))

\* The factory instantiates closure f from the descriptor (the closure starts
\* on the descriptor's code) and calls Compiler::PostInstantiation.
PostInstantiationCall(f) ==
  PostInstantiation(
    ReplaceCode(Begin("PostInstantiation", f, kNone, FALSE), f, shared.code),
    f)
PostInstantiationAct ==
  \E f \in Closures :
    /\ fn[f] = [code |-> CompileLazy, marker |-> kNone]
    /\ SharedIsCompiled(heap)
    /\ Commit(PostInstantiationCall(f))

\* Compiler::CompileDebugCode(shared).  The debugger flushes the queue of the
\* optimizing dispatcher before it prepares a function for break points.
CompileDebugCodeCall(in) ==
  CompileDebugCode(Begin("CompileDebugCode", NoClosure, kNone, FALSE), in)
CompileDebugCodeAct ==
  \E in \in UnoptInputsFor(FALSE) :
    /\ ~pending
    /\ cdjob = NoJob
    /\ queue = EmptyBag
    /\ Commit(CompileDebugCodeCall(in))

\* The compiler dispatcher enqueues the descriptor for lazy compilation:
\* Compiler::PrepareUnoptimizedCompilationJob
Enqueued(r) == [r.h EXCEPT !.cdjob = r.job]
DispatcherEnqueue ==
  \E impl \in {SUCCEEDED, FAILED} :
    /\ ~pending
    /\ cdjob = NoJob
    /\ ~SharedIsCompiled(heap)
    /\ Commit(Enqueued(
                PrepareUnoptimizedCompilationJob(
                  Begin("PrepareUnoptimizedCompilationJob", NoClosure, kNone,
                        FALSE), impl)))

\* The compiler dispatcher runs the Execute phase of its job.  Only jobs of
\* the optimizing tier leave the originating thread.
DispatcherExecute ==
  \E impl \in {SUCCEEDED, FAILED} :
    /\ cdjob # NoJob
    /\ cdjob.state = kReadyToExecute
    /\ Commit(Enqueued(
                ExecuteJob(Begin("DispatcherExecute", NoClosure, kNone, FALSE),
                           cdjob, impl, "isolate")))

\* The compiler dispatcher finalizes its executed job on the isolate thread
\* (Compiler::FinalizeCompilationJob) and drops a job whose Execute failed.
DispatcherTaken == [Begin("DispatcherFinalize", NoClosure, kNone, FALSE)
                      EXCEPT !.cdjob = NoJob]
DispatcherFinalize ==
  \E impl \in {SUCCEEDED, FAILED}, exc \in BOOLEAN :
    /\ ~pending
    /\ cdjob # NoJob
    /\ cdjob.state \in {kReadyToFinalize, kFailed}
    /\ impl = SUCCEEDED => ~exc
    /\ cdjob.state = kFailed => impl = SUCCEEDED
    /\ IF cdjob.state = kFailed
         THEN Commit(LogJob(DispatcherTaken, cdjob))
         ELSE Commit(FinalizeCompilationJob(DispatcherTaken, cdjob, impl,
                                            FALSE, exc))

\* ----------------------------------------------------------- environment
\* The runtime profiler counts a tick for the function.
ProfilerTick ==
  /\ ~pending
  /\ vec.exists
  /\ vec.profiler_ticks < MaxTicks
  /\ Commit([heap EXCEPT !.vec.profiler_ticks = @ + 1])

\* The deoptimizer invalidates an optimized code object: the code is marked
\* for deoptimization and the closures that run it are unlinked from it and
\* fall back to the code of the descriptor.  The slot keeps the code until the
\* next lookup evicts it.
DeoptimizeMarkedCode(h, id) ==
  [h EXCEPT !.marked = @ \cup {id},
            !.fn = [f \in Closures |->
                      IF h.fn[f].code = OptCode(id)
                        THEN [h.fn[f] EXCEPT !.code = h.shared.code]
                        ELSE h.fn[f]]]
Deoptimize ==
  \E id \in LiveIds(heap) \ marked :
    ~pending /\ Commit(DeoptimizeMarkedCode(heap, id))

\* The debugger installs or removes break info.  It does so only while no
\* optimizing job is outstanding (DCHECK at line 879), and before it installs
\* break info it deoptimizes the optimized code of the function.
DeoptimizeAll(h) ==
  [h EXCEPT !.marked = @ \cup LiveIds(h),
            !.fn = [f \in Closures |->
                      IF FnIsOptimized(h, f)
                        THEN [h.fn[f] EXCEPT !.code = h.shared.code]
                        ELSE h.fn[f]]]
SetBreakInfo ==
  \E b \in BOOLEAN :
    /\ ~pending
    /\ b # shared.break_info
    /\ SharedIsCompiled(heap)
    /\ queue = EmptyBag
    /\ Commit([(IF b THEN DeoptimizeAll(heap) ELSE heap)
                 EXCEPT !.shared.break_info = b])

\* %NeverOptimizeFunction
NeverOptimizeFunction ==
  /\ ~pending
  /\ ~(shared.optimization_disabled
       /\ shared.disable_reason = kOptimizationDisabledForTest)
  /\ Commit(DisableOptimization(heap, kOptimizationDisabledForTest))

\* The caller of a failed Compile reports the pending error.
ReportPendingException ==
  /\ pending
  /\ Commit([heap EXCEPT !.pending = FALSE])

Next ==
  \/ CompileAct
  \/ CompileOptimizedAct
  \/ GetOptimizedCodeForOSRAct
  \/ BackgroundExecute
  \/ FinalizeCompilationJobAct
  \/ PostInstantiationAct
  \/ CompileDebugCodeAct
  \/ DispatcherEnqueue
  \/ DispatcherExecute
  \/ DispatcherFinalize
  \/ ProfilerTick
  \/ Deoptimize
  \/ SetBreakInfo
  \/ NeverOptimizeFunction
  \/ ReportPendingException

Spec == Init /\ [][Next]_vars

\* Both baseline tiers: the bytecode tier, and full-codegen
\* (--stress-fullcodegen), whose code the optimizer has to parse again.
InitTiers ==
  /\ flags \in {[DefaultFlags EXCEPT !.stress_fullcodegen = b] : b \in BOOLEAN}
  /\ literal = DefaultLiteral
  /\ Start
SpecTiers == InitTiers /\ [][Next]_vars

\* The optimizing tier switched on or off (--no-opt, or a --turbo-filter that
\* the function does not pass).
InitOpt ==
  /\ flags \in {[DefaultFlags EXCEPT !.opt = b] : b \in BOOLEAN}
  /\ literal = DefaultLiteral
  /\ Start
SpecOpt == InitOpt /\ [][Next]_vars

\* The isolate started with --stress-fullcodegen: unoptimized code comes from
\* full-codegen, whose jobs cannot execute on a background thread.
InitFullCodegen ==
  /\ flags = [DefaultFlags EXCEPT !.stress_fullcodegen = TRUE]
  /\ literal = DefaultLiteral
  /\ Start
SpecFullCodegen == InitFullCodegen /\ [][Next]_vars

\* ------------------------------------------------------------ properties
Modes == {kConcurrent, kNotConcurrent}
Flags == {"KEEP_EXCEPTION", "CLEAR_EXCEPTION"}

\* Optimizing jobs in a state other than kSucceeded and kFailed.
NonTerminal == {kReadyToPrepare, kReadyToExecute, kReadyToFinalize}
Outstanding(h) ==
  BagCardinality(
    [j \in {k \in BagToSet(h.queue) : k.state \in NonTerminal}
       |-> CopiesIn(j, h.queue)])

\* The slot holds code that a lookup returns.
SlotValid(h) ==
  /\ h.vec.exists
  /\ h.vec.optimized_code # NoCode
  /\ ~MarkedForDeoptimization(h, h.vec.optimized_code)

\* The request ran no part of a compilation.
NoAttempt(r) == r.log.constructed = 0 /\ r.log.phases = <<>>

\* C1 (as stated): at no instant are two optimizing jobs of the descriptor
\* both in a state other than kSucceeded and kFailed.
C1_SingleFlight == Outstanding(heap) <= 1

\* C2 (as stated): finalizing a queued job whose dependencies have aborted
\* since PrepareJob fails the job through
\* RetryOptimization(kBailedOutDueToDependencyChange), runs no Finalize
\* phase, inserts nothing into the cache and installs no optimized code on
\* the closure.
C2_Stated ==
  \A job \in BagToSet(queue), impl \in ImplOutcomes, ctx \in BOOLEAN :
    FinalizeEnabled(job)
    => LET r == FinalizeCall(job, impl, ctx, TRUE)
       IN /\ r.log.job_state = kFailed
          /\ "RetryOptimization" \in r.log.calls
          /\ r.log.bailout = kBailedOutDueToDependencyChange
          /\ r.log.phases = <<>>
          /\ "Insert" \notin r.log.calls
          /\ r.vec.optimized_code = vec.optimized_code
          /\ ~FnIsOptimized(r, job.f)

\* C2 (amended): finalizing a queued job whose dependencies have aborted
\* leaves the job in kFailed, runs no Finalize phase, inserts nothing into
\* the cache, puts the code of the descriptor on the closure and clears its
\* in-queue marker.  A job that is ready to finalize fails through
\* RetryOptimization, with reason kOptimizationDisabled if the descriptor is
\* optimization-disabled and kBailedOutDueToDependencyChange otherwise; a job
\* whose Execute failed is not retried and records no reason.
C2_DependencyAbort ==
  \A job \in BagToSet(queue), impl \in ImplOutcomes, ctx \in BOOLEAN :
    FinalizeEnabled(job)
    => LET r == FinalizeCall(job, impl, ctx, TRUE)
       IN /\ r.log.job_state = kFailed
          /\ r.log.ret = "false"
          /\ r.log.phases = <<>>
          /\ "Insert" \notin r.log.calls
          /\ r.vec.optimized_code = vec.optimized_code
          /\ r.fn[job.f] = [code |-> shared.code, marker |-> kNone]
          /\ IF job.state = kReadyToFinalize
               THEN /\ "RetryOptimization" \in r.log.calls
                    /\ r.log.bailout =
                         IF shared.optimization_disabled
                           THEN kOptimizationDisabled
                           ELSE kBailedOutDueToDependencyChange
               ELSE /\ "RetryOptimization" \notin r.log.calls
                    /\ r.log.bailout = kNoReason

\* A job that is ready to finalize with aborted dependencies, on a descriptor
\* that is not optimization-disabled, is retried for the dependency change.
C2_Witness ==
  \E job \in BagToSet(queue) :
    /\ FinalizeEnabled(job)
    /\ FinalizeInput(job, SUCCEEDED, FALSE, TRUE)
    /\ fn[job.f].marker = kInOptimizationQueue
    /\ FinalizeCall(job, SUCCEEDED, FALSE, TRUE).log.bailout
         = kBailedOutDueToDependencyChange

\* What the environment may do between two requests: nothing, or the
\* deoptimizer invalidates an optimized code object.
Later(h) ==
  {h} \cup {DeoptimizeMarkedCode(h, id) : id \in LiveIds(h) \ h.marked}

\* The states right after a successful optimizing compile that is neither
\* an OSR compile nor specialized to the function context: a Synchronous
\* CompileOptimized, or FinalizeCompilationJob for a queued job.
AfterSharedCompile ==
  {Collect(r) :
     r \in {s \in {CompileOptimizedCall(f, kNotConcurrent, NoOpt) :
                     f \in {c \in Closures : CompileOptimizedEnabled(c)}}
                  \cup {FinalizeCall(job, SUCCEEDED, FALSE, FALSE) :
                          job \in {j \in BagToSet(queue) : FinalizeEnabled(j)}}
              : s.log.job_state = kSucceeded}}

\* The request hits the cache: no job, no phase, the slot's code installed.
HitsCache(h, g, mode) ==
  LET r == CompileOptimizedFrom(h, g, mode, NoOpt)
  IN /\ r.log.hit
     /\ NoAttempt(r)
     /\ r.fn[g].code = h.vec.optimized_code
     /\ r.vec.optimized_code = h.vec.optimized_code

\* C3 (as stated): after such a compile the next CompileOptimized request
\* for a closure of the descriptor that is not optimized hits the cache,
\* whatever the deoptimizer did in between.
C3_Stated ==
  \A h1 \in AfterSharedCompile :
    \A h \in Later(h1), g \in Closures, mode \in Modes :
      ~FnIsOptimized(h, g) => HitsCache(h, g, mode)

\* C3 (amended): after such a compile the slot holds the produced code, and
\* a CompileOptimized request that follows it directly, for a closure that
\* is not optimized, hits the cache; and in every state a request hits the
\* cache if the slot holds code that is not marked for deoptimization.
C3_CacheCoherence ==
  /\ \A h \in AfterSharedCompile :
       /\ SlotValid(h)
       /\ \A g \in Closures, mode \in Modes :
            ~FnIsOptimized(h, g) => HitsCache(h, g, mode)
  /\ \A g \in Closures, mode \in Modes :
       CompileOptimizedEnabled(g) /\ SlotValid(heap) /\ ~FnIsOptimized(heap, g)
       => HitsCache(heap, g, mode)

\* Closure f runs the code of the slot and the other closure, not optimized,
\* is served from the slot.
C3_Witness ==
  \E g \in Closures :
    /\ CompileOptimizedEnabled(g)
    /\ SlotValid(heap)
    /\ ~FnIsOptimized(heap, g)
    /\ \E f \in Closures \ {g} : fn[f].code = vec.optimized_code
    /\ HitsCache(heap, g, kConcurrent)

\* C4: an OSR compile, whatever its outcome and whether or not it is
\* specialized to the function context, neither stores into the slot of the
\* descriptor nor clears it, and a lookup with an OSR target misses.
C4_OSRIsolation ==
  \A f \in Closures :
    /\ GetCodeFromOptimizedCodeCache(heap, f, TRUE).code = NoCode
    /\ \A in \in RequestInputs(f, kNotConcurrent, TRUE) :
         OSREnabled(f)
         => LET r == OSRCall(f, in)
            IN /\ r.vec.optimized_code = vec.optimized_code
               /\ r.vec.exists = vec.exists
               /\ ~r.log.hit
               /\ r.log.calls
                    \cap {"SetOptimizedCode", "ClearOptimizedCode", "Evict"}
                  = {}

\* An OSR compile specialized to the function context succeeds while the
\* slot holds code.
C4_Witness ==
  \E f \in Closures :
    /\ OSREnabled(f)
    /\ SlotValid(heap)
    /\ [NoOpt EXCEPT !.ctx = TRUE] \in RequestInputs(f, kNotConcurrent, TRUE)
    /\ LET r == OSRCall(f, [NoOpt EXCEPT !.ctx = TRUE])
       IN /\ r.log.ret = "code"
          /\ r.log.ctx
          /\ "Insert" \in r.log.calls

\* C5 (as stated): on a descriptor that is optimization-disabled,
\* CompileOptimized in either mode constructs no job and leaves baseline
\* code on the closure.
C5_Stated ==
  \A f \in Closures, mode \in Modes :
    \A in \in CompileOptimizedInputs(f, mode) :
      CompileOptimizedEnabled(f) /\ shared.optimization_disabled
      => LET r == CompileOptimizedCall(f, mode, in)
         IN /\ r.log.constructed = 0
            /\ ~FnIsOptimized(r, f)

\* C6 (as stated): with break info on the descriptor, CompileOptimized
\* returns with bailout reason kFunctionBeingDebugged, constructs no job and
\* leaves baseline code on the closure.
C6_Stated ==
  \A f \in Closures, mode \in Modes :
    \A in \in CompileOptimizedInputs(f, mode) :
      CompileOptimizedEnabled(f) /\ shared.break_info
      => LET r == CompileOptimizedCall(f, mode, in)
         IN /\ r.log.ret = "true"
            /\ r.log.bailout = kFunctionBeingDebugged
            /\ r.log.constructed = 0
            /\ r.fn[f].code = shared.code

\* C6 (amended): with break info on the descriptor, CompileOptimized for a
\* closure that does not run optimized code constructs a job, aborts it with
\* reason kFunctionBeingDebugged before any phase runs and destroys it;
\* nothing is queued or cached and the closure gets the code of the
\* descriptor, without a marker.
C6_DebuggerAttach ==
  \A f \in Closures, mode \in Modes :
    \A in \in CompileOptimizedInputs(f, mode) :
      CompileOptimizedEnabled(f) /\ shared.break_info
      /\ ~FnIsOptimized(heap, f)
      => LET r == CompileOptimizedCall(f, mode, in)
         IN /\ r.log.ret = "true"
            /\ r.log.bailout = kFunctionBeingDebugged
            /\ r.log.job_state = kReadyToPrepare
            /\ r.log.constructed = 1
            /\ r.log.phases = <<>>
            /\ "AbortOptimization" \in r.log.calls
            /\ r.queue = queue
            /\ r.vec.optimized_code = NoCode
            /\ r.fn[f] = [code |-> shared.code, marker |-> kNone]

\* A request on a descriptor with break info and profiler ticks.
C6_Witness ==
  \E f \in Closures :
    /\ CompileOptimizedEnabled(f)
    /\ shared.break_info
    /\ vec.profiler_ticks > 0
    /\ CompileOptimizedCall(f, kConcurrent, NoOpt).log.bailout
         = kFunctionBeingDebugged

\* The request asked for admission and was rejected.
Rejected(r) == r.log.calls \cap {"QueueFull", "HighMemoryPressure"} # {}

\* C7 (as stated): when the queue is unavailable or memory pressure is high,
\* CompileOptimized(Concurrent) returns with the closure on baseline code and
\* without marker, enqueues nothing, destroys the job and changes neither the
\* slot nor the profiler ticks.
C7_Stated ==
  \A f \in Closures :
    \A in \in CompileOptimizedInputs(f, kConcurrent) :
      CompileOptimizedEnabled(f)
      => LET r == CompileOptimizedCall(f, kConcurrent, in)
         IN Rejected(r)
            => /\ r.log.ret = "true"
               /\ r.fn[f] = [code |-> shared.code, marker |-> kNone]
               /\ r.queue = queue
               /\ r.log.job_state = kReadyToPrepare
               /\ r.vec = vec

\* C7 (amended): on rejection CompileOptimized(Concurrent) returns with the
\* closure on the code of the descriptor and without marker, enqueues
\* nothing and destroys the job before any phase ran; the profiler ticks
\* have been reset to 0, and the slot is unchanged unless it held code marked
\* for deoptimization, which the lookup evicted.
C7_AdmissionRejection ==
  \A f \in Closures :
    \A in \in CompileOptimizedInputs(f, kConcurrent) :
      CompileOptimizedEnabled(f)
      => LET r == CompileOptimizedCall(f, kConcurrent, in)
         IN Rejected(r)
            => /\ r.log.ret = "true"
               /\ r.fn[f] = [code |-> shared.code, marker |-> kNone]
               /\ r.queue = queue
               /\ r.log.job_state = kReadyToPrepare
               /\ r.log.constructed = 1
               /\ r.log.phases = <<>>
               /\ r.log.bailout = kNoReason
               /\ r.shared = shared
               /\ r.vec.profiler_ticks = 0
               /\ r.vec.optimized_code = NoCode
               /\ vec.optimized_code # NoCode
                    => MarkedForDeoptimization(heap, vec.optimized_code)

\* A rejected request of a closure that carried the in-queue marker, on a
\* descriptor with profiler ticks.
C7_Witness ==
  \E f \in Closures :
    /\ CompileOptimizedEnabled(f)
    /\ vec.profiler_ticks > 0
    /\ fn[f].marker = kInOptimizationQueue
    /\ [NoOpt EXCEPT !.queue_available = FALSE]
         \in CompileOptimizedInputs(f, kConcurrent)
    /\ Rejected(CompileOptimizedCall(f, kConcurrent,
                                     [NoOpt EXCEPT !.queue_available = FALSE]))

\* A fresh function: neither the descriptor nor the closure is compiled.
Fresh(f) == ~pending /\ ~SharedIsCompiled(heap) /\ ~FnIsCompiled(heap, f)

\* The states after a successful Compile of the fresh closure f.
AfterCompile(f) ==
  {Collect(c) :
     c \in {s \in {CompileCall(f, flag, in, NoOpt) :
                     flag \in Flags, in \in CompileInputs(f)}
              : s.log.ret = "true"}}

\* The outcomes of a Synchronous CompileOptimized that compiled successfully.
Optimized(h, f) ==
  {r \in {CompileOptimizedFrom(h, f, kNotConcurrent, in) : in \in PhaseInputs}
     : r.log.job_state = kSucceeded}

\* C8 (as stated): for a fresh function, after a successful Compile and a
\* successful CompileOptimized(Synchronous) the code of the closure is the
\* entry of the slot.
C8_Stated ==
  \A f \in Closures :
    Fresh(f)
    => \A h \in AfterCompile(f) :
         \A r \in Optimized(h, f) :
           r.fn[f].code = r.vec.optimized_code

\* C8 (amended): for a fresh function, after a successful Compile and a
\* successful CompileOptimized(Synchronous) the closure runs the produced
\* optimized code; the slot holds that code if the compile was not
\* specialized to the function context and is empty if it was.
C8_HappyPath ==
  \A f \in Closures :
    Fresh(f)
    => \A h \in AfterCompile(f) :
         \A r \in Optimized(h, f) :
           /\ FnIsOptimized(r, f)
           /\ r.log.ret = "true"
           /\ r.vec.optimized_code =
                IF r.log.ctx THEN NoCode ELSE r.fn[f].code

\* The state at the end of the happy path: the one compiled closure runs
\* the code of the slot, and nothing else has happened to the descriptor.
C8_Witness ==
  \E f \in Closures :
    /\ FnIsOptimized(heap, f)
    /\ fn[f].code = vec.optimized_code
    /\ \A g \in Closures \ {f} : ~FnIsCompiled(heap, g)
    /\ marked = {} /\ queue = EmptyBag /\ ~shared.optimization_disabled

\* C9: Compile is idempotent: after a successful Compile a second call
\* constructs no job, runs no phase and leaves the code of the closure and of
\* the descriptor as they are; and Compile starts no compilation whenever the
\* descriptor has baseline code.
C9_CompileIdempotent ==
  /\ \A f \in Closures :
       ~pending /\ ~FnIsCompiled(heap, f)
       => \A h \in AfterCompile(f) :
            \A flag \in Flags, in \in UnoptInputsFor(UsesAsm(FALSE)) :
              LET r == CompileFrom(h, f, flag, in, NoOpt)
              IN /\ NoAttempt(r)
                 /\ r.log.calls = {}
                 /\ r.log.ret = "true"
                 /\ r.fn = h.fn
                 /\ r.shared = h.shared
  /\ \A f \in Closures, flag \in Flags :
       \A in \in UnoptInputsFor(UsesAsm(FALSE)) :
         ~pending /\ SharedIsCompiled(heap)
         => LET r == CompileCall(f, flag, in, NoOpt)
            IN /\ NoAttempt(r)
               /\ r.log.calls \subseteq {"Evict"}
               /\ r.log.ret = "true"
               /\ r.shared = shared

\* After the first Compile of closure f: a second Compile of f returns at
\* once, and a Compile of the other closure installs the code of the
\* descriptor without a compilation.
C9_Witness ==
  \E f \in Closures :
    /\ ~pending
    /\ FnIsCompiled(heap, f)
    /\ NoAttempt(CompileCall(f, "KEEP_EXCEPTION", NoUnopt, NoOpt))
    /\ \E g \in Closures \ {f} :
         /\ ~FnIsCompiled(heap, g)
         /\ CompileCall(g, "KEEP_EXCEPTION", NoUnopt, NoOpt).fn[g].code
              = shared.code

\* C10: a hit in the optimized code cache short-circuits CompileOptimized: no
\* job is constructed, no eligibility check and no phase runs, the profiler
\* ticks are not reset and the cached code is on the closure on return.
C10_CacheHit ==
  \A f \in Closures, mode \in Modes :
    \A in \in InputsFor(mode, shared.bytecode) :
      CompileOptimizedEnabled(f) /\ SlotValid(heap) /\ ~FnIsOptimized(heap, f)
      => LET r == CompileOptimizedCall(f, mode, in)
         IN /\ r.log.hit
            /\ r.log.ret = "true"
            /\ NoAttempt(r)
            /\ r.log.calls = {}
            /\ r.log.bailout = kNoReason
            /\ r.vec = vec
            /\ r.queue = queue
            /\ r.shared = shared
            /\ r.fn[f] = [code |-> vec.optimized_code, marker |-> kNone]

\* A hit on a descriptor that is ineligible for a compile and has profiler
\* ticks.
C10_Witness ==
  \E f \in Closures :
    /\ CompileOptimizedEnabled(f)
    /\ SlotValid(heap)
    /\ ~FnIsOptimized(heap, f)
    /\ vec.profiler_ticks > 0
    /\ Ineligible(heap) # kNoReason
    /\ CompileOptimizedCall(f, kConcurrent, NoOpt).log.hit


\* The optimization attempt of the request came to nothing: its job was
\* destroyed before a phase ran (ineligible, rejected, parse error) or a
\* phase failed.
AttemptFailed(r) ==
  r.log.constructed = 1 /\ r.log.job_state \in {kReadyToPrepare, kFailed}

\* How the attempt failed.
FailureOf(r) ==
  IF r.log.bailout \in {kFunctionBeingDebugged, kOptimizationDisabledForTest,
                        kOptimizationDisabled} /\ r.log.phases = <<>>
    THEN "ineligible"
  ELSE IF Rejected(r) THEN "rejected"
  ELSE IF r.log.phases = <<>> THEN "parse"
  ELSE r.log.phases[Len(r.log.phases)]

\* C11: optimization failures are silent: whatever makes the attempt of a
\* CompileOptimized request fail (ineligibility, rejected admission, a parse
\* error, a failed Prepare, Execute or Finalize), the call returns true, no
\* error is pending, and the closure runs the baseline code of the
\* descriptor, which is the code it had; and when a queued job fails in
\* Execute or Finalize, FinalizeCompilationJob leaves no error pending and
\* the closure on the baseline code of the descriptor.
C11_SilentFailure ==
  /\ \A f \in Closures, mode \in Modes :
       \A in \in CompileOptimizedInputs(f, mode) :
         CompileOptimizedEnabled(f)
         => LET r == CompileOptimizedCall(f, mode, in)
            IN AttemptFailed(r)
               => /\ r.log.ret = "true"
                  /\ ~r.pending
                  /\ r.log.asserts = {}
                  /\ r.shared.code = shared.code
                  /\ r.fn[f] = [code |-> shared.code, marker |-> kNone]
                  /\ ~FnIsOptimized(r, f)
  /\ \A job \in BagToSet(queue), impl \in ImplOutcomes :
       \A ctx \in BOOLEAN, aborted \in BOOLEAN :
         FinalizeEnabled(job) /\ FinalizeInput(job, impl, ctx, aborted)
         => LET r == FinalizeCall(job, impl, ctx, aborted)
            IN r.log.job_state = kFailed
               => /\ ~r.pending
                  /\ r.shared.code = shared.code
                  /\ r.fn[job.f].code = shared.code
                  /\ ~IsInOptimizationQueue(r, job.f)

\* After an attempt that the backend aborted, a state in which a Synchronous
\* request can fail in each way but ineligibility: the parser, Prepare,
\* Execute and Finalize.
C11_Witness ==
  \E f \in Closures :
    /\ CompileOptimizedEnabled(f)
    /\ shared.disable_reason = kBackendBailout
    /\ ~FnIsOptimized(heap, f)
    /\ {FailureOf(CompileOptimizedCall(f, kNotConcurrent, in)) :
          in \in {i \in CompileOptimizedInputs(f, kNotConcurrent) :
                    AttemptFailed(CompileOptimizedCall(f, kNotConcurrent, i))}}
       = {"parse", "Prepare", "Execute", "Finalize"}

\* C12: a failed baseline compile is propagated: Compile returns false, the
\* closure stays uncompiled, and the error stays pending under
\* KEEP_EXCEPTION and is cleared under CLEAR_EXCEPTION; and Compile returns
\* false whenever the parser, the analyzer, a phase of the baseline job or
\* the compile of an inner function fails.
C12_FailurePropagation ==
  \A f \in Closures, flag \in Flags :
    \A in \in CompileInputs(f) :
      \A oin \in CompileOptInputs(f, in) :
        ~pending /\ ~FnIsCompiled(heap, f)
        => LET r == CompileCall(f, flag, in, oin)
           IN /\ r.log.ret \in {"true", "false"}
              /\ r.log.ret = "false"
                   => /\ r.fn[f] = fn[f]
                      /\ ~FnIsCompiled(r, f)
                      /\ r.pending = (flag = "KEEP_EXCEPTION")
              /\ ~SharedIsCompiled(heap) /\ ~IsEnqueued(heap) /\ ~UnoptOk(in)
                   => r.log.ret = "false"
              /\ r.log.ret = "true" => ~r.pending /\ FnIsCompiled(r, f)

\* After a failed Compile with KEEP_EXCEPTION: the error is pending and the
\* closures are uncompiled.
C12_Witness ==
  /\ pending
  /\ \A f \in Closures : ~FnIsCompiled(heap, f)

\* A job that is kept between two calls is where the phases run on it have
\* left it.
LinearJob(job) ==
  \/ job.state = kReadyToExecute /\ job.ran = <<"Prepare">>
  \/ /\ job.state \in {kReadyToFinalize, kFailed}
     /\ job.ran = <<"Prepare", "Execute">>

\* Compiler::FinalizeCompilationJob for job, a job of the unoptimized tier
\* that the compiler dispatcher holds.
UnoptimizedFinalizeCall(job, impl, exc) ==
  FinalizeCompilationJob(DispatcherTaken, job, impl, FALSE, exc)

\* What the entry points do in the current state, for every answer of the
\* collaborators: Compile, CompileOptimized, GetOptimizedCodeForOSR,
\* CompileDebugCode, PrepareUnoptimizedCompilationJob, FinalizeCompilationJob
\* for an executed job of the optimizing dispatcher, and the Execute phase of
\* the jobs the two dispatchers hold.
CompileCalls ==
  UNION {UNION {{CompileCall(f, flag, in, oin) :
                   flag \in Flags, oin \in CompileOptInputs(f, in)} :
                  in \in CompileInputs(f)} :
           f \in IF pending THEN {} ELSE Closures}
CompileOptimizedCalls ==
  UNION {{CompileOptimizedCall(fm[1], fm[2], in) :
            in \in CompileOptimizedInputs(fm[1], fm[2])} :
           fm \in {c \in Closures : CompileOptimizedEnabled(c)} \X Modes}
OSRCalls ==
  UNION {{OSRCall(f, in) : in \in RequestInputs(f, kNotConcurrent, TRUE)} :
           f \in {c \in Closures : OSREnabled(c)}}
FinalizeCalls ==
  UNION {{FinalizeCall(job, x[1], x[2], x[3]) :
            x \in {y \in ImplOutcomes \X BOOLEAN \X BOOLEAN :
                     FinalizeInput(job, y[1], y[2], y[3])}} :
           job \in {j \in BagToSet(queue) : FinalizeEnabled(j)}}
DebugCalls ==
  IF pending \/ cdjob # NoJob \/ queue # EmptyBag THEN {}
  ELSE {CompileDebugCodeCall(in) : in \in UnoptInputsFor(FALSE)}
PrepareCalls ==
  IF pending \/ cdjob # NoJob \/ SharedIsCompiled(heap) THEN {}
  ELSE {PrepareUnoptimizedCompilationJob(
          Begin("PrepareUnoptimizedCompilationJob", NoClosure, kNone, FALSE),
          impl).h : impl \in {SUCCEEDED, FAILED}}
ExecuteCalls ==
  {ExecuteJob(Begin("Execute", job.f, job.mode, job.osr), job, impl,
              "background").h :
     job \in {j \in BagToSet(queue) : j.state = kReadyToExecute},
     impl \in {SUCCEEDED, FAILED}}
  \cup {ExecuteJob(Begin("DispatcherExecute", NoClosure, kNone, FALSE), job,
                   impl, "isolate").h :
          job \in {j \in {cdjob} : j # NoJob /\ j.state = kReadyToExecute},
          impl \in {SUCCEEDED, FAILED}}
Calls ==
  CompileCalls \cup CompileOptimizedCalls \cup OSRCalls \cup FinalizeCalls
  \cup DebugCalls \cup PrepareCalls \cup ExecuteCalls

\* FinalizeCompilationJob for the job of the compiler dispatcher, in the
\* states given.
UnoptimizedFinalizeCalls(states) ==
  {UnoptimizedFinalizeCall(job, x[1], x[2]) :
     job \in {j \in {cdjob} : ~pending /\ j # NoJob /\ j.state \in states},
     x \in {y \in {SUCCEEDED, FAILED} \X BOOLEAN : y[1] = SUCCEEDED => ~y[2]}}

\* The jobs that are kept between two calls.
KeptJobs == BagToSet(queue) \cup ({cdjob} \ {NoJob})

\* C13: the transitions of a job are linear and single-shot: in every call
\* of the execution so far every phase started in the state it requires,
\* ended in the next state or in kFailed, and was the first run of that phase
\* on its job; and every job kept between calls is in the state the phases
\* run on it have left it in.
C13_LinearTransitions ==
  /\ "linear" \notin history
  /\ \A job \in KeptJobs : LinearJob(job)

\* The optimizing dispatcher holds a job that failed in Execute and a job
\* that is ready to finalize; the first is finalized without a phase, the
\* second ends in kSucceeded or, cut short, in kFailed.
C13_Witness ==
  /\ \E job \in BagToSet(queue) :
       /\ job.state = kFailed
       /\ job.ran = <<"Prepare", "Execute">>
       /\ FinalizeEnabled(job)
       /\ FinalizeCall(job, SUCCEEDED, FALSE, FALSE).log.steps = <<>>
  /\ \E job \in BagToSet(queue) :
       /\ job.state = kReadyToFinalize
       /\ FinalizeEnabled(job)
       /\ FinalizeInput(job, FAILED, FALSE, FALSE)
       /\ {FinalizeCall(job, impl, FALSE, FALSE).log.steps[1].to :
             impl \in {SUCCEEDED, FAILED}} = {kSucceeded, kFailed}

JobLog(job) == Begin("FinalizeCompilationJob", job.f, job.mode, job.osr)
TerminalJobs ==
  {j \in KeptJobs : j.state = kFailed}
  \cup {FinalizeJob(JobLog(j), j, impl, FALSE).job :
          j \in {k \in KeptJobs : k.state = kReadyToFinalize},
          impl \in ImplOutcomes}
Reasons ==
  {kOptimizationDisabled, kBailedOutDueToDependencyChange, kBackendBailout}

\* The states the operations of a job leave job in.
StatesAfter(job) ==
  {PrepareJob(JobLog(job), job, impl).job.state : impl \in ImplOutcomes}
  \cup {ExecuteJob(JobLog(job), job, impl, "isolate").job.state :
          impl \in ImplOutcomes}
  \cup {FinalizeJob(JobLog(job), job, impl, FALSE).job.state :
          impl \in ImplOutcomes}
  \cup {RetryOptimization(job, reason).state : reason \in Reasons}
  \cup {AbortOptimization(job, reason).state : reason \in Reasons}

MarkedByAbort == shared.optimization_disabled /\ shared.disable_reason = kBackendBailout

\* C16 as stated: RetryOptimization and AbortOptimization leave the job in
\* kFailed with the reason recorded; a retried attempt leaves the descriptor
\* as it was, and on a descriptor that an aborted attempt has marked no
\* request runs a phase of the optimizing tier again.
C16_Stated ==
  /\ \A job \in {j \in BagToSet(queue) : j.state = kReadyToFinalize} :
       \A reason \in Reasons :
         /\ RetryOptimization(job, reason).state = kFailed
         /\ RetryOptimization(job, reason).bailout = reason
         /\ ~RetryOptimization(job, reason).disable_future
         /\ AbortOptimization(job, reason).state = kFailed
         /\ AbortOptimization(job, reason).bailout = reason
         /\ AbortOptimization(job, reason).disable_future
  /\ \A r \in FinalizeCalls :
       "RetryOptimization" \in r.log.calls
         => /\ r.log.ret = "false"
            /\ r.log.job_state = kFailed
            /\ r.shared = shared
  /\ MarkedByAbort
       => \A r \in CompileOptimizedCalls \cup OSRCalls : r.log.phases = <<>>

\* The state of the code slot of closure f as a caller observes it.
SlotState(h, f) ==
  IF ~FnIsCompiled(h, f) THEN "Uncompiled"
  ELSE IF FnIsOptimized(h, f) THEN "Optimized"
  ELSE IF IsInOptimizationQueue(h, f) THEN "OptimizedPending"
  ELSE "Baseline"

\* How a call that starts in heap h and ends in heap r moves the slots.
MovesFrom(h, r) ==
  {m \in {<<SlotState(h, f), SlotState(r, f)>> : f \in Closures} :
     m[1] # m[2]}

\* The moves of the slots in every Compile, CompileOptimized and
\* FinalizeCompilationJob call of the current state, and in PostInstantiation
\* for a closure that the factory has just put on the code of the descriptor.
SlotMoves ==
  UNION {MovesFrom(heap, r) :
           r \in CompileCalls \cup CompileOptimizedCalls \cup FinalizeCalls}
  \cup UNION {MovesFrom(ReplaceCode(heap, f, shared.code),
                        PostInstantiationCall(f)) :
                f \in {c \in Closures :
                         /\ fn[c] = [code |-> CompileLazy, marker |-> kNone]
                         /\ SharedIsCompiled(heap)}}

\* The moves the slot state machine of the claim allows.
StatedMoves ==
  {<<"Uncompiled", "Baseline">>, <<"Baseline", "OptimizedPending">>,
   <<"Baseline", "Optimized">>, <<"OptimizedPending", "Optimized">>,
   <<"OptimizedPending", "Baseline">>}

\* C17 as stated: across Compile, CompileOptimized, FinalizeCompilationJob
\* and PostInstantiation the slot of a closure changes only from Uncompiled
\* to Baseline, from Baseline to OptimizedPending or Optimized, and from
\* OptimizedPending to Optimized or Baseline.
C17_Stated == SlotMoves \subseteq StatedMoves

\* The moves of the slots that do happen.
ActualMoves ==
  StatedMoves \cup {<<"Uncompiled", "Optimized">>,
                    <<"Uncompiled", "OptimizedPending">>,
                    <<"Optimized", "Baseline">>}

\* The call that ends in heap r has moved the slots within ActualMoves; it
\* has taken a closure from Uncompiled to Optimized or OptimizedPending only
\* if the descriptor was compiled before, and from Optimized to Baseline
\* only if it returns failure.
MovesWithin(r, failure) ==
  LET moves == MovesFrom(heap, r)
  IN /\ moves \subseteq ActualMoves
     /\ ~SharedIsCompiled(heap)
          => \A m \in moves : m[1] = "Uncompiled" => m[2] = "Baseline"
     /\ <<"Optimized", "Baseline">> \in moves => r.log.ret = failure

\* C17: the slot of a closure changes only along the moves of the claim and
\* along Uncompiled -> Optimized, Uncompiled -> OptimizedPending and
\* Optimized -> Baseline.  An uncompiled closure leaves Uncompiled for
\* Optimized or OptimizedPending only if its descriptor is compiled already,
\* and only a failed FinalizeCompilationJob takes an optimized closure back
\* to Baseline.  No call leaves a closure uncompiled that was compiled, and
\* none marks an optimized closure as awaiting optimization.
C17_SlotStateMachine ==
  /\ ~pending
       => \A f \in Closures, flag \in Flags :
            \A in \in CompileInputs(f) :
              \A oin \in CompileOptInputs(f, in) :
                MovesWithin(CompileCall(f, flag, in, oin), "none")
  /\ \A f \in Closures, mode \in Modes :
       CompileOptimizedEnabled(f)
         => \A in \in CompileOptimizedInputs(f, mode) :
              MovesWithin(CompileOptimizedCall(f, mode, in), "none")
  /\ \A job \in BagToSet(queue) :
       FinalizeEnabled(job)
         => \A impl \in ImplOutcomes, ctx \in BOOLEAN, aborted \in BOOLEAN :
              FinalizeInput(job, impl, ctx, aborted)
                => MovesWithin(FinalizeCall(job, impl, ctx, aborted), "false")
  /\ \A f \in Closures :
       fn[f] = [code |-> CompileLazy, marker |-> kNone] /\ SharedIsCompiled(heap)
         => MovesFrom(ReplaceCode(heap, f, shared.code),
                      PostInstantiationCall(f))
              \subseteq {<<"Baseline", "Optimized">>}

\* A closure of a compiled descriptor is still uncompiled while the slot of
\* the feedback vector holds optimized code: Compile takes it to Optimized.
C17_Witness ==
  /\ ~pending
  /\ SharedIsCompiled(heap)
  /\ \E f \in Closures :
       /\ ~FnIsCompiled(heap, f)
       /\ vec.optimized_code # NoCode
       /\ \E r \in CompileCalls :
            r.log.f = f /\ r.log.ret = "true" /\ SlotState(r, f) = "Optimized"

\* A Concurrent request for closure f that misses the cache, is eligible,
\* passes admission and whose Prepare phase succeeds.
Admitted(f, in) ==
  /\ CompileOptimizedEnabled(f)
  /\ ~FnIsOptimized(heap, f)
  /\ Reads(f, FALSE)
  /\ in.queue_available
  /\ ~in.high_memory
  /\ in.parse
  /\ in.prep = SUCCEEDED

\* The jobs a call that ends in heap r has added to the queue.
NewlyQueued(r) == BagToSet(r.queue (-) queue)

\* C18: a CompileOptimized(Concurrent) that passes admission and whose
\* PrepareJob succeeds returns true having run Prepare only; exactly one job
\* has been added to the queue, for this closure and in kReadyToExecute; the
\* closure carries the in-queue marker and runs a marker-checking builtin,
\* the interpreter entry if it was interpreted; no error is pending.
C18_ConcurrentHandover ==
  \A f \in Closures :
    \A in \in CompileOptimizedInputs(f, kConcurrent) :
      Admitted(f, in)
      => LET r == CompileOptimizedCall(f, kConcurrent, in)
         IN /\ r.log.ret = "true"
            /\ r.log.phases = <<"Prepare">>
            /\ BagCardinality(r.queue) = BagCardinality(queue) + 1
            /\ \A job \in NewlyQueued(r) :
                 /\ job.state = kReadyToExecute
                 /\ job.f = f
                 /\ job.mode = kConcurrent
                 /\ job.ran = <<"Prepare">>
            /\ IsInOptimizationQueue(r, f)
            /\ ~FnIsOptimized(r, f)
            /\ r.fn[f].code
                 = IF FnIsInterpreted(heap, f) THEN InterpreterEntryTrampoline
                   ELSE CheckOptimizationMarker
            /\ ChecksOptimizationMarker(r, f)
            /\ ~r.pending

\* An interpreted closure and an uncompiled closure of the same descriptor
\* can both be admitted in the current state.
C18_Witness ==
  /\ \E f \in Closures :
       /\ FnIsInterpreted(heap, f)
       /\ \E in \in CompileOptimizedInputs(f, kConcurrent) : Admitted(f, in)
  /\ \E f \in Closures :
       /\ ~FnIsCompiled(heap, f)
       /\ \E in \in CompileOptimizedInputs(f, kConcurrent) :
            /\ Admitted(f, in)
            /\ NewlyQueued(CompileOptimizedCall(f, kConcurrent, in)) # {}

\* C19 as stated: once a job has been handed to the optimizing dispatcher
\* (QueueForOptimization), the call that queued it performs no further read
\* or write of the job or of its CompilationInfo.
C19_Stated == \A r \in Calls : r.log.after_handover = {}

Installs(r) == "InstallUnoptimizedCode" \in r.log.calls

\* C21 as stated: a descriptor has at most one baseline representation and
\* an installation never overwrites an installed one: every call of Compile,
\* CompileDebugCode or FinalizeCompilationJob of the compiler dispatcher's
\* job that installs baseline code starts on a descriptor without baseline
\* code and keeps the 'only compiled once' assertion of line 342.
C21_Stated ==
  \A r \in CompileCalls \cup DebugCalls
           \cup UnoptimizedFinalizeCalls({kReadyToFinalize}) :
    Installs(r)
    => /\ ~SharedIsCompiled(heap)
       /\ ~shared.bytecode
       /\ "Install:HasBytecodeArray" \notin r.log.asserts

\* ------------------------------------------------ optimized code cache
\* The slot holds code that has been marked for deoptimization.
SlotMarked == MarkedForDeoptimization(heap, vec.optimized_code)

\* GetCodeFromOptimizedCodeCache in the current state
Lookup(f, osr) ==
  GetCodeFromOptimizedCodeCache(
    Begin("GetCodeFromOptimizedCodeCache", f, kNone, osr), f, osr)

\* C22 as stated: after a lookup that evicted marked code the caller
\* proceeds to a fresh compile, in Compile as well as in CompileOptimized.
C22_Stated ==
  \A r \in CompileCalls \cup CompileOptimizedCalls :
    "Evict" \in r.log.calls => r.log.constructed > 0

\* C22: a cache lookup never returns code that is marked for deoptimization:
\* a non-OSR lookup evicts such code from the slot and reports a miss, any
\* other code in the slot is returned and the slot is left alone, and an OSR
\* lookup reports a miss without reading the slot.  After the eviction
\* CompileOptimized constructs a job for a fresh compile, and Compile for an
\* uncompiled closure of the compiled descriptor installs the descriptor's
\* baseline code without a compile.
C22_LookupEvicts ==
  /\ \A f \in Closures :
       LET hit == Lookup(f, FALSE)
           osr == Lookup(f, TRUE)
       IN /\ ~MarkedForDeoptimization(heap, hit.code)
          /\ osr.code = NoCode
          /\ osr.h.vec = vec
          /\ vec.exists /\ SlotMarked
             => /\ hit.code = NoCode
                /\ hit.h.vec.optimized_code = NoCode
                /\ hit.h.log.calls = {"Evict"}
          /\ vec.exists /\ ~SlotMarked
             => /\ hit.code = vec.optimized_code
                /\ hit.h.vec = vec
  /\ SlotMarked
     => /\ \A f \in Closures, mode \in Modes :
             CompileOptimizedEnabled(f) /\ ~FnIsOptimized(heap, f)
             => \A in \in CompileOptimizedInputs(f, mode) :
                  LET r == CompileOptimizedCall(f, mode, in)
                  IN /\ "Evict" \in r.log.calls
                     /\ ~r.log.hit
                     /\ r.log.constructed = 1
                     /\ r.fn[f].code # vec.optimized_code
                     /\ r.vec.optimized_code # vec.optimized_code
        /\ \A f \in Closures, flag \in Flags :
             ~pending /\ ~FnIsCompiled(heap, f) /\ vec.exists
             => LET r == CompileCall(f, flag, NoUnopt, NoOpt)
                IN /\ "Evict" \in r.log.calls
                   /\ ~r.log.hit
                   /\ r.log.constructed = 0
                   /\ r.fn[f].code = shared.code
                   /\ r.vec.optimized_code = NoCode

\* The slot holds marked code while one closure of the descriptor may ask
\* for optimized code and the other is not compiled yet.
C22_Witness ==
  /\ SlotMarked
  /\ \A f \in Closures : Lookup(f, FALSE).code = NoCode
  /\ \E f \in Closures : CompileOptimizedEnabled(f) /\ FnIsCompiled(heap, f)
  /\ \E f \in Closures : ~FnIsCompiled(heap, f)

\* The CompilationInfo objects an insert can be given: optimizing jobs, OSR
\* or not, function-context-specialized or not, holding baseline code or
\* new optimized code.
InsertJobs ==
  {[NewJob("turbofan", f, osr, kNotConcurrent) EXCEPT !.code = code,
                                                      !.ctx = ctx] :
     f \in Closures, osr \in BOOLEAN, ctx \in BOOLEAN,
     code \in {InterpreterEntryTrampoline, FullCode}
              \cup {OptCode(i) : i \in CodeIds \ (LiveIds(heap) \cup marked)}}

\* InsertCodeIntoOptimizedCodeCache in the current state
Insert(job) ==
  InsertCodeIntoOptimizedCodeCache(Begin("Insert", job.f, job.mode, job.osr),
                                   job)

\* C23 as stated: code that is not optimized leaves the slot unchanged, a
\* specialized compile clears the slot, whatever its entry, and only a
\* non-specialized, non-OSR optimized artifact is stored.
C23_Stated ==
  vec.exists
  => \A job \in InsertJobs :
       /\ job.code.kind # "OPTIMIZED_FUNCTION" => Insert(job).vec = vec
       /\ job.code.kind = "OPTIMIZED_FUNCTION" /\ job.ctx
          => Insert(job).vec.optimized_code = NoCode
       /\ Insert(job).vec.optimized_code = job.code
          => job.code.kind = "OPTIMIZED_FUNCTION" /\ ~job.ctx /\ ~job.osr

\* C23: the insert policy.  Code that is not an optimized-tier artifact
\* leaves the slot unchanged; an OSR compile leaves the slot unchanged,
\* specialized or not; a non-OSR function-context-specialized compile is not
\* stored and clears the slot; a non-OSR compile that is not specialized is
\* stored and replaces whatever the slot held.
C23_InsertPolicy ==
  vec.exists
  => \A job \in InsertJobs :
       LET r == Insert(job)
       IN /\ job.code.kind # "OPTIMIZED_FUNCTION" \/ job.osr
             => r.vec = vec
          /\ job.code.kind = "OPTIMIZED_FUNCTION" /\ ~job.osr /\ job.ctx
             => /\ r.vec.optimized_code = NoCode
                /\ r.log.calls = {"Insert", "ClearOptimizedCode"}
          /\ job.code.kind = "OPTIMIZED_FUNCTION" /\ ~job.osr /\ ~job.ctx
             => /\ r.vec.optimized_code = job.code
                /\ r.log.calls = {"Insert", "SetOptimizedCode"}
          /\ r.shared = shared
          /\ \A c \in Closures : r.fn[c].code = fn[c].code
          /\ r.queue = queue

\* The slot holds code while an executed job waits for its finalization, and
\* the finalization of the job as a specialized compile clears the slot.
C23_Witness ==
  /\ vec.optimized_code # NoCode
  /\ \E job \in BagToSet(queue) :
       /\ FinalizeEnabled(job)
       /\ FinalizeInput(job, SUCCEEDED, TRUE, FALSE)
       /\ "ClearOptimizedCode"
            \in FinalizeCall(job, SUCCEEDED, TRUE, FALSE).log.calls
       /\ FinalizeCall(job, SUCCEEDED, TRUE, FALSE).vec.optimized_code = NoCode

\* ClearOptimizedCodeCache in the current state
Clear(job) ==
  ClearOptimizedCodeCache(Begin("Clear", job.f, job.mode, job.osr), job)

\* C24 as stated: after ClearOptimizedCodeCache for any CompilationInfo, OSR
\* or not, the slot is empty and the tick counter is 0.
C24_Stated ==
  vec.exists
  => \A job \in InsertJobs :
       /\ Clear(job).vec.optimized_code = NoCode
       /\ Clear(job).vec.profiler_ticks = 0

\* C24: ClearOptimizedCodeCache for a CompilationInfo that is not an OSR
\* compile drops the slot and resets the tick counter, whatever the slot
\* holds and whatever the code of the CompilationInfo is; for an OSR compile
\* it changes nothing.  Nothing but the slot and the counter changes.
C24_Clear ==
  vec.exists
  => \A job \in InsertJobs :
       LET r == Clear(job)
       IN /\ ~job.osr => /\ r.vec.optimized_code = NoCode
                         /\ r.vec.profiler_ticks = 0
                         /\ r.vec.exists
                         /\ r.log.calls = {"ClearOptimizedCode"}
          /\ job.osr => /\ r.vec = vec
                        /\ r.log.calls = {}
          /\ r.shared = shared
          /\ \A c \in Closures : r.fn[c].code = fn[c].code
          /\ r.queue = queue
          /\ r.marked = marked

\* The slot holds code and the profiler has counted a tick since it was
\* stored, and the finalization of a queued job as a specialized compile
\* clears the slot.
C24_Witness ==
  /\ vec.optimized_code # NoCode
  /\ vec.profiler_ticks > 0
  /\ \A job \in InsertJobs : ~job.osr => Clear(job).vec.profiler_ticks = 0
  /\ \E job \in BagToSet(queue) :
       /\ FinalizeEnabled(job)
       /\ FinalizeInput(job, SUCCEEDED, TRUE, FALSE)
       /\ "ClearOptimizedCode"
            \in FinalizeCall(job, SUCCEEDED, TRUE, FALSE).log.calls

\* ------------------------------------------------------- eligibility
\* %NeverOptimizeFunction was applied to the descriptor.
DisabledForTest ==
  shared.optimization_disabled
  /\ shared.disable_reason = kOptimizationDisabledForTest

\* A request of closure f that misses the cache and is not eligible.
IneligibleMiss(f) ==
  /\ CompileOptimizedEnabled(f)
  /\ ~FnIsOptimized(heap, f)
  /\ Lookup(f, FALSE).code = NoCode
  /\ shared.break_info \/ DisabledForTest \/ ~flags.opt

\* C25 as stated: every ineligibility case records its own reason, and a
\* descriptor without baseline code is one of the cases.
C25_Stated ==
  /\ \A f \in Closures, mode \in Modes :
       IneligibleMiss(f)
       => CompileOptimizedCall(f, mode, NoOpt).log.bailout # kNoReason
  /\ ~SharedIsCompiled(heap) => Ineligible(heap) # kNoReason

\* C25: a CompileOptimized request that misses the cache on an ineligible
\* descriptor constructs a job, records the bailout reason of the first case
\* that applies through AbortOptimization ('function being debugged' for
\* break info, else 'optimization disabled for test' for a descriptor
\* disabled by the test directive, else 'optimization disabled' when the
\* optimizer is switched off or the filter is not passed), runs no phase,
\* queues and caches nothing and leaves the closure on the descriptor's
\* baseline code without a marker.
C25_IneligibleBailout ==
  \A f \in Closures, mode \in Modes :
    IneligibleMiss(f)
    => \A in \in CompileOptimizedInputs(f, mode) :
         LET r == CompileOptimizedCall(f, mode, in)
         IN /\ shared.break_info
               => r.log.bailout = kFunctionBeingDebugged
            /\ ~shared.break_info /\ DisabledForTest
               => r.log.bailout = kOptimizationDisabledForTest
            /\ ~shared.break_info /\ ~DisabledForTest
               => r.log.bailout = kOptimizationDisabled
            /\ "AbortOptimization" \in r.log.calls
            /\ r.log.constructed = 1
            /\ r.log.phases = <<>>
            /\ r.log.ret = "true"
            /\ r.queue = queue
            /\ r.vec.optimized_code = NoCode
            /\ r.fn[f] = [code |-> shared.code, marker |-> kNone]
            /\ r.shared.code = shared.code

\* The optimizer is switched off and the descriptor is disabled by the test
\* directive: the request records the reason of the test directive.
C25_Witness ==
  /\ ~flags.opt
  /\ DisabledForTest
  /\ ~shared.break_info
  /\ \E f \in Closures :
       /\ IneligibleMiss(f)
       /\ CompileOptimizedCall(f, kNotConcurrent, NoOpt).log.bailout
            = kOptimizationDisabledForTest

\* ------------------------------------------------ synchronous failure
\* The answers of the backend with which a phase of a Synchronous compile
\* fails, and the phases that run when it does.
PhaseFails(in) ==
  in.prep # SUCCEEDED \/ in.exec # SUCCEEDED \/ in.fin # SUCCEEDED
PhasesUntilFailure(in) ==
  IF in.prep # SUCCEEDED THEN <<"Prepare">>
  ELSE IF in.exec # SUCCEEDED THEN <<"Prepare", "Execute">>
  ELSE <<"Prepare", "Execute", "Finalize">>

\* A Synchronous request of closure f that gets as far as the phases.
SyncAttempt(f) ==
  CompileOptimizedEnabled(f) /\ ~FnIsOptimized(heap, f) /\ Reads(f, FALSE)

\* C26 as stated: when a phase of a Synchronous compile fails, later phases
\* are not run, the code in the slot is what it was before the request, the
\* closure is on the descriptor's baseline code without a marker and the job
\* is discarded.
C26_Stated ==
  \A f \in Closures :
    SyncAttempt(f)
    => \A in \in {i \in CompileOptimizedInputs(f, kNotConcurrent) :
                    PhaseFails(i)} :
         LET r == CompileOptimizedCall(f, kNotConcurrent, in)
         IN /\ r.log.phases = PhasesUntilFailure(in)
            /\ r.vec.optimized_code = vec.optimized_code
            /\ r.fn[f] = [code |-> shared.code, marker |-> kNone]
            /\ r.queue = queue

\* C26: when Prepare, Execute or Finalize of a Synchronous compile fails, no
\* later phase runs, nothing is inserted into the cache (the slot is as the
\* lookup left it: empty, code marked for deoptimization evicted, and the
\* tick counter reset before the phases), the closure is on the descriptor's
\* baseline code without a marker, nothing is queued, no error is pending,
\* and the one job of the request is destroyed in state Failed before
\* CompileOptimized returns true.
C26_SyncFailure ==
  \A f \in Closures :
    SyncAttempt(f)
    => \A in \in {i \in CompileOptimizedInputs(f, kNotConcurrent) :
                    PhaseFails(i)} :
         LET r == CompileOptimizedCall(f, kNotConcurrent, in)
         IN /\ r.log.phases = PhasesUntilFailure(in)
            /\ r.log.calls \cap {"Insert", "SetOptimizedCode",
                                 "ClearOptimizedCode",
                                 "QueueForOptimization"} = {}
            /\ r.vec.optimized_code = NoCode
            /\ r.vec.optimized_code = Lookup(f, FALSE).h.vec.optimized_code
            /\ r.vec.profiler_ticks = 0
            /\ r.fn[f] = [code |-> shared.code, marker |-> kNone]
            /\ r.shared.code = shared.code
            /\ r.queue = queue
            /\ ~r.pending
            /\ r.log.constructed = 1
            /\ r.log.job_state = kFailed
            /\ r.log.ret = "true"

\* A closure marked for optimization asks for a Synchronous compile while
\* the slot holds code marked for deoptimization and the profiler has
\* counted a tick; the backend fails in Execute.
C26_Witness ==
  \E f \in Closures :
    /\ SyncAttempt(f)
    /\ SlotMarked
    /\ vec.profiler_ticks > 0
    /\ [NoOpt EXCEPT !.exec = FAILED]
         \in CompileOptimizedInputs(f, kNotConcurrent)
    /\ CompileOptimizedCall(f, kNotConcurrent,
                            [NoOpt EXCEPT !.exec = FAILED]).log.phases
         = <<"Prepare", "Execute">>

\* ------------------------------------- finalization of background jobs
\* The queued jobs that have been executed and can be finalized now.
ReadyJobs ==
  {job \in BagToSet(queue) : ~pending /\ job.state = kReadyToFinalize}

\* C27: when a job in ReadyToFinalize is finalized while its descriptor is
\* optimization-disabled, FinalizeCompilationJob moves it to Failed through
\* RetryOptimization with reason kOptimizationDisabled, whether or not the
\* dependencies of the job have aborted; the Finalize phase does not run,
\* nothing is inserted into the cache or cleared from it, the descriptor is
\* left as it is, and the closure is on the descriptor's baseline code
\* without a marker.
C27_DisabledRevalidation ==
  \A job \in ReadyJobs, aborted \in BOOLEAN :
    shared.optimization_disabled
    => LET r == FinalizeCall(job, SUCCEEDED, FALSE, aborted)
       IN /\ r.log.calls = {"RetryOptimization"}
          /\ r.log.bailout = kOptimizationDisabled
          /\ r.log.job_state = kFailed
          /\ r.log.phases = <<>>
          /\ r.log.ret = "false"
          /\ r.vec.optimized_code = vec.optimized_code
          /\ r.shared = shared
          /\ r.fn[job.f] = [code |-> shared.code, marker |-> kNone]

\* An executed job comes back for a closure that awaits it, after its
\* descriptor was disabled for optimization and with its dependencies
\* aborted.
C27_Witness ==
  \E job \in ReadyJobs :
    /\ shared.optimization_disabled
    /\ fn[job.f].marker = kInOptimizationQueue
    /\ FinalizeCall(job, SUCCEEDED, FALSE, TRUE).log.bailout
         = kOptimizationDisabled

\* The finalization of the queued job cannot succeed: the job failed in
\* Execute, a revalidation check fails, or the Finalize phase fails.
CannotSucceed(job, impl, aborted) ==
  \/ job.state # kReadyToFinalize
  \/ shared.optimization_disabled
  \/ aborted
  \/ impl # SUCCEEDED

\* C28: whenever the finalization of a queued optimizing job does not
\* succeed (the job came back Failed from Execute, the descriptor is
\* optimization-disabled, the dependencies have aborted, or the Finalize
\* phase fails), FinalizeCompilationJob returns false with the job Failed
\* and no error pending, the closure is on the descriptor's baseline code,
\* the in-queue marker of the closure is cleared, and the cached code of the
\* slot is what it was: nothing is inserted or cleared.
C28_FinalizeFailure ==
  \A job \in BagToSet(queue), impl \in ImplOutcomes :
    \A ctx \in BOOLEAN, aborted \in BOOLEAN :
      FinalizeEnabled(job) /\ FinalizeInput(job, impl, ctx, aborted)
      /\ CannotSucceed(job, impl, aborted)
      => LET r == FinalizeCall(job, impl, ctx, aborted)
         IN /\ r.log.ret = "false"
            /\ r.log.job_state = kFailed
            /\ ~r.pending
            /\ r.fn[job.f].code = shared.code
            /\ r.shared.code = shared.code
            /\ r.fn[job.f].marker
                 = IF fn[job.f].marker = kInOptimizationQueue THEN kNone
                   ELSE fn[job.f].marker
            /\ r.vec.optimized_code = vec.optimized_code
            /\ r.log.calls \cap {"Insert", "SetOptimizedCode",
                                 "ClearOptimizedCode", "Evict"} = {}

\* A job comes back Failed from Execute for a closure that awaits it.
C28_Witness ==
  \E job \in BagToSet(queue) :
    /\ FinalizeEnabled(job)
    /\ job.state = kFailed
    /\ fn[job.f].marker = kInOptimizationQueue
    /\ FinalizeCall(job, SUCCEEDED, FALSE, FALSE).log.ret = "false"
    /\ FinalizeCall(job, SUCCEEDED, FALSE, FALSE).fn[job.f].marker = kNone

\* C29: when a queued job in ReadyToFinalize is finalized on a descriptor
\* that is not optimization-disabled, with its dependencies intact and a
\* Finalize phase that succeeds, FinalizeCompilationJob returns true with
\* the job Succeeded, the produced code is given to the cache insert (which
\* stores it, or clears the slot for a specialized compile), the closure runs
\* the produced optimized code, and the insert comes before the swap of the
\* closure's code.
C29_FinalizeSuccess ==
  \A job \in ReadyJobs, ctx \in BOOLEAN :
    ~shared.optimization_disabled
    => LET r == FinalizeCall(job, SUCCEEDED, ctx, FALSE)
       IN /\ r.log.ret = "true"
          /\ r.log.job_state = kSucceeded
          /\ r.log.phases = <<"Finalize">>
          /\ r.log.asserts = {}
          /\ "Insert" \in r.log.calls
          /\ r.log.order = <<"Insert", "ReplaceCode">>
          /\ r.fn[job.f].code = OptCode(FreshId(heap))
          /\ r.vec.optimized_code
               = IF ctx THEN NoCode ELSE OptCode(FreshId(heap))
          /\ ~r.pending
          /\ r.shared = shared

\* An executed job comes back for a closure that awaits it on baseline code.
C29_Witness ==
  \E job \in ReadyJobs :
    /\ ~shared.optimization_disabled
    /\ fn[job.f].marker = kInOptimizationQueue
    /\ ~FnIsOptimized(heap, job.f)
    /\ FinalizeCall(job, SUCCEEDED, FALSE, FALSE).vec.optimized_code
         = FinalizeCall(job, SUCCEEDED, FALSE, FALSE).fn[job.f].code
    /\ FnIsOptimized(FinalizeCall(job, SUCCEEDED, FALSE, FALSE), job.f)

\* ------------------------------------------------ the Execute phase
\* Jobs of every tier that are ready to execute.
ReadyToExecuteJobs ==
  {[NewJob(kind, f, FALSE, mode) EXCEPT !.state = kReadyToExecute,
                                       !.ran = <<"Prepare">>] :
     kind \in {"turbofan", "ignition", "fullcodegen", "asmjs"},
     f \in Closures, mode \in Modes}
  \cup {job \in KeptJobs : job.state = kReadyToExecute}

\* ExecuteJob in the current state
Execute(job, impl, thread) ==
  ExecuteJob(Begin("Execute", job.f, job.mode, job.osr), job, impl, thread)

\* C30: while the implementation of Execute runs for a job that can execute
\* on a background thread, heap allocation, handle allocation, handle
\* dereference and code dependency changes are forbidden, on whichever
\* thread it runs, and Execute leaves the dependencies of the job as they
\* are; for a job that cannot execute on a background thread no scope is
\* opened and running it on another thread than the isolate's violates the
\* assertion of line 118, which no call of the system does.
C30_ExecuteScopes ==
  /\ \A job \in ReadyToExecuteJobs, impl \in {SUCCEEDED, FAILED} :
       \A thread \in {"isolate", "background"} :
         LET r == Execute(job, impl, thread)
         IN /\ r.h.log.forbidden
                 = <<IF CanExecuteOnBackgroundThread(job)
                       THEN {"HeapAllocation", "HandleAllocation",
                             "HandleDereference", "CodeDependencyChange"}
                       ELSE {}>>
            /\ r.job.aborted = job.aborted
            /\ r.job.bg
                 = (CanExecuteOnBackgroundThread(job) /\ thread # "isolate")
            /\ ("ExecuteJob:thread" \in r.h.log.asserts)
                 = (~CanExecuteOnBackgroundThread(job) /\ thread # "isolate")
  /\ "ExecuteJob:thread" \notin history
  /\ \A job \in KeptJobs : job.bg => CanExecuteOnBackgroundThread(job)

\* The compiler dispatcher holds a full-codegen job, which cannot execute on
\* a background thread, ready to execute: it runs on the isolate thread
\* without a scope.
C30_Witness ==
  /\ cdjob # NoJob
  /\ cdjob.kind = "fullcodegen"
  /\ cdjob.state = kReadyToExecute
  /\ ~CanExecuteOnBackgroundThread(cdjob)
  /\ Execute(cdjob, SUCCEEDED, "isolate").h.log.forbidden = <<{}>>
  /\ Execute(cdjob, SUCCEEDED, "isolate").h.log.asserts = {}

\* ------------------------------------------------- the baseline tiers
\* The entry points of the unoptimized tiers for every function literal and
\* every setting of --stress-fullcodegen and --validate-asm: the literal must
\* use the bytecode tier or not, is a function of an asm.js module or not,
\* is an asm.js module or not.
InitBaseline ==
  /\ flags \in {[DefaultFlags EXCEPT !.stress_fullcodegen = s,
                                     !.validate_asm = v] :
                  s \in BOOLEAN, v \in BOOLEAN}
  /\ literal \in {[DefaultLiteral EXCEPT !.must_use_ignition = m,
                                         !.asm_function = a,
                                         !.asm_module = am] :
                    m \in BOOLEAN, a \in BOOLEAN, am \in BOOLEAN}
  /\ Start
NextBaseline ==
  \/ CompileAct
  \/ PostInstantiationAct
  \/ CompileDebugCodeAct
  \/ DispatcherEnqueue
  \/ DispatcherExecute
  \/ DispatcherFinalize
  \/ ReportPendingException
SpecBaseline == InitBaseline /\ [][NextBaseline]_vars

\* ------------------------------------------------------ tier selection
\* The tier the rules of the strategy select, evaluated in order.
SelectUnoptimizedStrategy(must, asm, stress) ==
  IF must THEN "ignition"
  ELSE IF asm THEN "fullcodegen"
  ELSE IF stress THEN "fullcodegen"
  ELSE "ignition"

\* The unoptimized code that the tier selected for the literal installs.
SelectedCode ==
  IF SelectUnoptimizedStrategy(literal.must_use_ignition,
                               literal.asm_function,
                               flags.stress_fullcodegen) = "fullcodegen"
    THEN FullCode ELSE InterpreterEntryTrampoline

\* C31: tier selection evaluates its rules in order: a literal that must use
\* the bytecode tier gets the interpreter even if it is an asm function and
\* --stress-fullcodegen is set, otherwise an asm function gets full-codegen,
\* otherwise the stress flag decides.  The job GetUnoptimizedCompilationJob
\* constructs is of that tier in every state, for a debug compile or not;
\* the job of the compiler dispatcher is of that tier, and so is the code of
\* a descriptor that was not compiled by the asm.js validator.
C31_TierSelection ==
  /\ \A m \in BOOLEAN, a \in BOOLEAN, s \in BOOLEAN :
       ShouldUseFullCodegen(m, a, s)
         = (SelectUnoptimizedStrategy(m, a, s) = "fullcodegen")
  /\ \A debug \in BOOLEAN :
       GetUnoptimizedCompilationJob(debug).kind
         = SelectUnoptimizedStrategy(literal.must_use_ignition,
                                     literal.asm_function,
                                     flags.stress_fullcodegen)
  /\ cdjob # NoJob
       => cdjob.kind = SelectUnoptimizedStrategy(literal.must_use_ignition,
                                                 literal.asm_function,
                                                 flags.stress_fullcodegen)
  /\ SharedIsCompiled(heap) /\ ~shared.asm_wasm_data
       => shared.code = SelectedCode

\* A literal that must use the bytecode tier, is an asm function and is
\* compiled under --stress-fullcodegen: the descriptor has bytecode.
C31_Witness ==
  /\ literal.must_use_ignition
  /\ literal.asm_function
  /\ flags.stress_fullcodegen
  /\ SharedIsCompiled(heap)
  /\ shared.bytecode
  /\ shared.code = InterpreterEntryTrampoline

\* ----------------------------------------------- asm.js validation
\* The phases a job runs when it fails at `fail'.
PhasesOf(fail) ==
  CASE fail = "Prepare" -> <<"Prepare">>
    [] fail = "Execute" -> <<"Prepare", "Execute">>
    [] OTHER -> <<"Prepare", "Execute", "Finalize">>

\* GenerateUnoptimizedCode in the current state
Generate(debug, in) ==
  GenerateUnoptimizedCode(Begin("GenerateUnoptimizedCode", NoClosure, kNone,
                                FALSE), debug, in)

\* C32: when the asm.js validator is selected and its job fails in Prepare,
\* Execute or Finalize, GenerateUnoptimizedCode constructs a second job, of
\* the tier GetUnoptimizedCompilationJob selects, runs it from Prepare and
\* succeeds iff that job succeeds; the failed validation installs nothing
\* and leaves no error pending.  When the validator job succeeds it is the
\* only job and its result is installed.  And Compile for a module whose
\* validation fails succeeds whenever the standard compile does.
C32_AsmFallback ==
  /\ UsesAsm(FALSE) /\ ~pending /\ ~SharedIsCompiled(heap)
     => \A in \in UnoptInputsFor(TRUE) :
          LET g == Generate(FALSE, in)
          IN IF in.asm_fail = "none"
               THEN /\ g.ok
                    /\ g.h.log.constructed = 1
                    /\ g.job.kind = "asmjs"
                    /\ g.h.log.phases = PhasesOf("none")
                    /\ g.h.shared.asm_wasm_data
                    /\ g.h.shared.code = InstantiateAsmJs
               ELSE /\ g.h.log.constructed = 2
                    /\ g.job.kind = GetUnoptimizedCompilationJob(FALSE).kind
                    /\ g.h.log.phases
                         = PhasesOf(in.asm_fail) \o PhasesOf(in.fail)
                    /\ g.ok = (in.fail = "none")
                    /\ g.ok => g.h.shared.code = SelectedCode
                    /\ ~g.h.shared.asm_wasm_data
                    /\ g.h.pending = (in.exc /\ in.fail # "none")
  /\ UsesAsm(FALSE) /\ ~pending /\ ~SharedIsCompiled(heap) /\ cdjob = NoJob
     => \A f \in Closures, in \in UnoptInputsFor(TRUE) :
          in.asm_fail # "none"
          => LET r == CompileCall(f, "KEEP_EXCEPTION", in, NoOpt)
             IN /\ r.log.ret = (IF UnoptOk(in) THEN "true" ELSE "false")
                /\ UnoptOk(in) => r.fn[f].code = SelectedCode
  /\ \A debug \in BOOLEAN, in \in UnoptInputsFor(FALSE) :
       ~UsesAsm(debug) /\ ~pending
       => Generate(debug, in).h.log.constructed = 1

\* An asm.js module is about to be compiled with the validator on; the
\* validation fails in Execute and the second job compiles the module.
C32_Witness ==
  /\ UsesAsm(FALSE)
  /\ ~pending /\ ~SharedIsCompiled(heap) /\ cdjob = NoJob
  /\ \E f \in Closures :
       LET r == CompileCall(f, "KEEP_EXCEPTION",
                            [NoUnopt EXCEPT !.asm_fail = "Execute"], NoOpt)
       IN /\ r.log.constructed = 2
          /\ r.log.phases = <<"Prepare", "Execute",
                               "Prepare", "Execute", "Finalize">>
          /\ r.log.ret = "true"
          /\ r.shared.code = SelectedCode

\* ------------------------------------------- baseline is not starved
\* The states of the jobs the optimizing dispatcher holds.
QueuedStates == {job.state : job \in BagToSet(queue)}

\* C33: Compile never waits for an optimizing job.  In every state in which
\* no error is pending, whatever the optimizing dispatcher holds, Compile
\* for any closure returns true or false within the call, runs no phase of a
\* queued job and leaves the queue as it is; it returns true with the closure
\* compiled, and false only when a step of the baseline compile fails or the
\* job of the compiler dispatcher cannot be finished.
C33_NeverStarved ==
  ~pending
  => \A f \in Closures, flag \in Flags :
       /\ CompileInputs(f) # {}
       /\ \A in \in CompileInputs(f) :
            /\ CompileOptInputs(f, in) # {}
            /\ \A oin \in CompileOptInputs(f, in) :
                 LET r == CompileCall(f, flag, in, oin)
                 IN /\ r.log.ret \in {"true", "false"}
                    /\ r.queue = queue
                    /\ \A k \in DOMAIN r.log.steps :
                         r.log.steps[k].mode = kNotConcurrent
                    /\ (r.log.ret = "true") = FnIsCompiled(r, f)
                    /\ r.log.ret = "false"
                         => ~FnIsCompiled(heap, f)
                            /\ (~UnoptOk(in) \/ cdjob # NoJob)
                    /\ queue # EmptyBag => r.log.ret = "true"

\* The optimizing dispatcher holds a job that waits for the background
\* thread and a job that waits for its finalization while a closure of the
\* descriptor is not compiled: Compile installs the baseline code on it.
C33_Witness ==
  /\ ~pending
  /\ {kReadyToExecute, kReadyToFinalize} \subseteq QueuedStates
  /\ \E f \in Closures :
       /\ ~FnIsCompiled(heap, f)
       /\ CompileCall(f, "KEEP_EXCEPTION", NoUnopt, NoOpt).log.ret = "true"
       /\ CompileCall(f, "KEEP_EXCEPTION", NoUnopt, NoOpt).fn[f].code
            = shared.code

Postconditions(r, f, mode) ==
  /\ ~r.pending
  /\ SharedIsCompiled(r)
  /\ FnIsCompiled(r, f)
  /\ HasOptimizationMarker(r, f) => IsInOptimizationQueue(r, f)
  /\ HasOptimizationMarker(r, f) => ChecksOptimizationMarker(r, f)
  /\ IsInOptimizationQueue(r, f) => mode = kConcurrent

\* C35: the postconditions asserted at the end of CompileOptimized hold in
\* every state the program reaches, for every closure, mode and answer of
\* the collaborators: the closure and its descriptor are compiled and no
\* error is pending; a marker on the closure is 'in optimization queue' and
\* the closure's code checks it; the closure is in the optimization queue
\* only if the call was Concurrent, whatever marker it carried on entry;
\* and none of the assertions of the call fails.
C35_Postconditions ==
  \A f \in {c \in Closures : CompileOptimizedEnabled(c)} :
    \A mode \in Modes :
      ~FnIsOptimized(heap, f)
      => \A in \in CompileOptimizedInputs(f, mode) :
           LET r == CompileOptimizedCall(f, mode, in)
           IN /\ Postconditions(r, f, mode)
              /\ r.log.ret = "true"
              /\ r.log.asserts = {}

\* A closure that an earlier Concurrent request left marked as in the
\* optimization queue asks for a Synchronous compile, which fails in the
\* backend: the marker is gone and the closure runs the baseline code.
C35_Witness ==
  \E f \in Closures :
    /\ CompileOptimizedEnabled(f)
    /\ IsInOptimizationQueue(heap, f)
    /\ ~FnIsOptimized(heap, f)
    /\ [NoOpt EXCEPT !.exec = FAILED]
         \in CompileOptimizedInputs(f, kNotConcurrent)
    /\ LET r == CompileOptimizedCall(f, kNotConcurrent,
                                     [NoOpt EXCEPT !.exec = FAILED])
       IN /\ ~HasOptimizationMarker(r, f)
          /\ r.fn[f].code = shared.code

\* ------------------------------------------------ admission before Prepare
\* Every answer the collaborators of GetOptimizedCodeLater can give: the
\* dispatcher, the heap, the parser and the Prepare phase of the backend.
AdmissionInputs ==
  {[NoOpt EXCEPT !.queue_available = x[1], !.high_memory = x[2],
                 !.parse = x[3], !.prep = x[4]] :
     x \in BOOLEAN \X BOOLEAN \X BOOLEAN \X {SUCCEEDED, FAILED, "ABORT"}}

\* GetOptimizedCodeLater for a job that GetOptimizedCode has just constructed
\* for closure f (line 788).
LaterCall(f, in) ==
  GetOptimizedCodeLater(
    Begin("CompileOptimized", f, kConcurrent, FALSE),
    [NewOptimizingJob(f, kConcurrent, FALSE)
       EXCEPT !.from_bytecode = shared.bytecode],
    in)

\* C36: in Concurrent mode the admission checks come before PrepareJob.  When
\* the queue is not available or memory pressure is high, GetOptimizedCodeLater
\* answers false with the job still in kReadyToPrepare, no phase run and
\* nothing enqueued, whatever the parser and the backend would have answered.
\* The job is enqueued exactly when both checks passed and PrepareJob
\* succeeded, and then it is in kReadyToExecute having run Prepare only; a
\* job whose Prepare failed is not enqueued.  Every job the dispatcher holds
\* has run Prepare first and has left kReadyToPrepare.
C36_AdmissionBeforePrepare ==
  /\ \A f \in Closures :
       ~pending /\ SharedIsCompiled(heap)
       => \A in \in AdmissionInputs :
            LET a == LaterCall(f, in)
                rejected == ~in.queue_available \/ in.high_memory
                parsed == a.job.from_bytecode \/ in.parse
                queued == ~rejected /\ parsed /\ in.prep = SUCCEEDED
            IN /\ a.ok = queued
               /\ rejected
                    => /\ a.job.state = kReadyToPrepare
                       /\ a.job.ran = <<>>
                       /\ a.h.log.phases = <<>>
                       /\ a.h.log.calls
                            = {IF ~in.queue_available THEN "QueueFull"
                               ELSE "HighMemoryPressure"}
                       /\ a.h.queue = queue
               /\ queued
                    => /\ a.h.queue = queue (+) SetToBag({a.job})
                       /\ a.job.state = kReadyToExecute
                       /\ a.job.ran = <<"Prepare">>
                       /\ a.h.log.phases = <<"Prepare">>
               /\ ~queued
                    => /\ a.h.queue = queue
                       /\ "QueueForOptimization" \notin a.h.log.calls
               /\ ~rejected /\ parsed /\ in.prep # SUCCEEDED
                    => /\ a.job.state = kFailed
                       /\ a.h.log.phases = <<"Prepare">>
  /\ \A job \in BagToSet(queue) :
       /\ job.state # kReadyToPrepare
       /\ job.ran # <<>>
       /\ job.ran[1] = "Prepare"
       /\ job.ran = <<"Prepare">> => job.state = kReadyToExecute

\* The dispatcher holds a job that has only been prepared, and a second
\* Concurrent request is turned away because of memory pressure although its
\* Prepare phase would have failed.
C36_Witness ==
  /\ \E job \in BagToSet(queue) : job.ran = <<"Prepare">>
  /\ \E f \in Closures :
       /\ ~pending
       /\ SharedIsCompiled(heap)
       /\ ~LaterCall(f, [NoOpt EXCEPT !.high_memory = TRUE,
                                      !.prep = FAILED]).ok
       /\ LaterCall(f, [NoOpt EXCEPT !.high_memory = TRUE,
                                     !.prep = FAILED]).job.state
            = kReadyToPrepare

\* ------------------------------------ installing code from the cache slot
\* PostInstantiation for every closure the factory can create now.
PostInstantiationCalls ==
  {PostInstantiationCall(f) :
     f \in {c \in Closures :
              /\ fn[c] = [code |-> CompileLazy, marker |-> kNone]
              /\ SharedIsCompiled(heap)}}

\* The call that ends in heap r has installed, on its closure, the code
\* that the slot held when the call began.
InstalledFromSlot(r) ==
  /\ vec.optimized_code # NoCode
  /\ r.fn[r.log.f].code = vec.optimized_code
  /\ fn[r.log.f].code # vec.optimized_code

\* C37 as stated: no call of Compile, CompileOptimized or PostInstantiation
\* installs code from the optimized code cache slot on a closure when that
\* code is marked for deoptimization, and the assertion of line 1703 holds.
C37_Stated ==
  \A r \in CompileCalls \cup CompileOptimizedCalls \cup PostInstantiationCalls :
    /\ InstalledFromSlot(r) => ~SlotMarked
    /\ "PostInstantiation:marked_for_deoptimization" \notin r.log.asserts

\* ---------------------------------- a baseline failure has a pending error
\* CompileUnoptimizedCode in the current state, after a successful parse
CompileUnoptimizedCodeCall(debug, in) ==
  CompileUnoptimizedCode(
    Begin("CompileUnoptimizedCode", NoClosure, kNone, FALSE), debug, in)

\* The step of the compile that fails under the answers `in', if any.
FailingStep(debug, in) ==
  IF ~in.analyze THEN "Analyze"
  ELSE IF in.fail # "none" /\ (UsesAsm(debug) => in.asm_fail # "none")
    THEN "Generate"
  ELSE IF in.inner > 0 /\ ~in.inner_ok THEN "Inner"
  ELSE "none"

\* C38: whenever CompileUnoptimizedCode returns failure an error is pending
\* on the isolate: the one the failing step (analysis, code generation,
\* compile of an eager inner function) left, or else a stack overflow that
\* CompileUnoptimizedCode raises; it fails exactly when one of these steps
\* fails, and a successful compile raises nothing.
C38_FailureHasError ==
  ~pending
  => \A debug \in BOOLEAN, in \in {i \in UnoptInputs : i.parse} :
       LET c == CompileUnoptimizedCodeCall(debug, in)
           step == FailingStep(debug, in)
       IN /\ c.ok = (step = "none")
          /\ ~c.ok => c.h.pending
          /\ ~c.ok => (("StackOverflow" \in c.h.log.calls) = ~in.exc)
          /\ c.ok => /\ ~c.h.pending
                     /\ "StackOverflow" \notin c.h.log.calls

\* Compile of a fresh function has failed and has left its error pending; in
\* the same state a compile whose code generation fails without throwing
\* would raise the stack overflow.
C38_Witness ==
  /\ pending
  /\ ~SharedIsCompiled(heap)
  /\ LET c == CompileUnoptimizedCode(
                BeginAt([heap EXCEPT !.pending = FALSE],
                        "CompileUnoptimizedCode", NoClosure, kNone, FALSE),
                FALSE, [NoUnopt EXCEPT !.fail = "Execute"])
     IN ~c.ok /\ c.h.pending /\ "StackOverflow" \in c.h.log.calls

\* ------------------------------- baseline code is installed after Finalize
\* What InstallUnoptimizedCode writes on the descriptor.
Installed(h) ==
  [code |-> h.shared.code, bytecode |-> h.shared.bytecode,
   scope_info |-> h.shared.scope_info,
   asm_wasm_data |-> h.shared.asm_wasm_data]

\* The states in which a compile of the standard unoptimized tier starts:
\* a debug compile on any descriptor the dispatchers hold no job for, another
\* compile on a descriptor without code.
AttemptStarts(debug) ==
  /\ ~pending
  /\ ~UsesAsm(debug)
  /\ IF debug THEN cdjob = NoJob /\ queue = EmptyBag
     ELSE ~SharedIsCompiled(heap)

\* C39: baseline code is installed on the descriptor only after the Finalize
\* phase of the job succeeded.  A job whose Prepare or Execute fails runs no
\* later phase, so Finalize is not invoked; and when Prepare, Execute or
\* Finalize fails nothing is installed and the descriptor's code, bytecode
\* and scope info are as before the attempt.  A job that succeeds has run
\* the three phases and is installed.  The same holds when the compiler
\* dispatcher hands its executed job to FinalizeCompilationJob.
C39_InstallAfterFinalize ==
  /\ \A debug \in BOOLEAN :
       AttemptStarts(debug)
       => \A in \in JobInputs :
            LET g == Generate(debug, in)
                installs == "InstallUnoptimizedCode" \in g.h.log.calls
            IN /\ g.h.log.phases = PhasesOf(in.fail)
               /\ g.ok = (in.fail = "none")
               /\ installs = g.ok
               /\ g.ok => /\ g.job.state = kSucceeded
                          /\ g.h.shared.code = g.job.code
                          /\ g.h.shared.scope_info
               /\ ~g.ok => /\ g.job.state = kFailed
                           /\ Installed(g.h) = Installed(heap)
  /\ \A r \in UnoptimizedFinalizeCalls({kReadyToFinalize}) :
       IF r.log.ret = "true"
         THEN /\ r.log.phases = <<"Finalize">>
              /\ r.log.job_state = kSucceeded
              /\ "InstallUnoptimizedCode" \in r.log.calls
         ELSE /\ r.log.job_state = kFailed
              /\ "InstallUnoptimizedCode" \notin r.log.calls
              /\ Installed(r) = Installed(heap)

\* A compiled descriptor with bytecode is compiled again for debugging and
\* the job fails in Finalize: the three phases have run and the descriptor
\* still has the code and the bytecode of the first compile.
C39_Witness ==
  /\ AttemptStarts(TRUE)
  /\ SharedIsCompiled(heap)
  /\ shared.bytecode
  /\ LET g == Generate(TRUE, [NoUnopt EXCEPT !.fail = "Finalize"])
     IN /\ ~g.ok
        /\ g.h.log.phases = <<"Prepare", "Execute", "Finalize">>
        /\ g.h.shared.code = shared.code
        /\ g.h.shared.bytecode

\* ------------------------------------- 'awaiting optimization' is transient
\* The background thread of the optimizing dispatcher runs the Execute phase
\* of a job of closure f.
BackgroundExecuteFor(f) ==
  \E job \in {j \in BagToSet(queue) : j.f = f}, impl \in {SUCCEEDED, FAILED} :
    /\ job.state = kReadyToExecute
    /\ \E r \in {BackgroundExecuted(
                    ExecuteJob(Begin("Execute", job.f, job.mode, job.osr),
                               job, impl, "background"),
                    job)} :
         Commit(r)

\* The dispatcher hands an executed job of closure f back on the isolate
\* thread: Compiler::FinalizeCompilationJob.
FinalizeFor(f) ==
  \E job \in {j \in BagToSet(queue) : j.f = f}, impl \in ImplOutcomes :
  \E ctx \in BOOLEAN, aborted \in BOOLEAN :
    /\ FinalizeEnabled(job)
    /\ FinalizeInput(job, impl, ctx, aborted)
    /\ \E r \in {FinalizeCall(job, impl, ctx, aborted)} : Commit(r)

\* The optimizing tier with its dispatcher: the dispatcher takes the jobs in
\* the order in which they were queued, so the job of every closure is
\* executed on the background thread and then finalized on the isolate
\* thread, which reports a pending error before it goes on.
NextFair ==
  \/ CompileAct
  \/ CompileOptimizedAct
  \/ \E f \in Closures : BackgroundExecuteFor(f)
  \/ \E f \in Closures : FinalizeFor(f)
  \/ Deoptimize
  \/ ReportPendingException
\* The jobs of closure f in the queue that wait for their Execute phase
\* (ready) or for their finalization (not ready).
Waits(f, ready) ==
  {j \in BagToSet(queue) : j.f = f /\ (j.state = kReadyToExecute) = ready}
\* This step has taken the job out of the queue.
Left(job) == CopiesIn(job, heap'.queue) < CopiesIn(job, queue)
\* A step is the Execute phase of a job of f iff it takes a waiting job of f
\* out of the queue (it is queued again as executed), and the finalization of
\* a job of f iff it takes an executed job of f out of the queue.
Executed(f) == \E job \in Waits(f, TRUE) : Left(job)
Finalized(f) == \E job \in Waits(f, FALSE) : Left(job)
ExecuteEnabled(f) == Waits(f, TRUE) # {}
FinalizeForEnabled(f) == ~pending /\ Waits(f, FALSE) # {}

\* Weak fairness of BackgroundExecuteFor(f) and of FinalizeFor(f) for every
\* closure f, written out with the enabling condition and the step of each
\* action (WF_v(A) is []<>~ENABLED <<A>>_v \/ []<><<A>>_v), and weak fairness
\* of the report of a pending error.
Fairness ==
  /\ \A f \in Closures :
       []<>(~ExecuteEnabled(f)) \/ []<><<Executed(f)>>_vars
  /\ \A f \in Closures :
       []<>(~FinalizeForEnabled(f)) \/ []<><<Finalized(f)>>_vars
  /\ WF_vars(ReportPendingException)
SpecFair == Init /\ [][NextFair]_vars /\ Fairness

\* FinalizeCompilationJob for the queued job leaves its closure without the
\* in-queue marker, on the optimized code when it returns true and on the
\* code of the descriptor when it returns false.
Settles(job, impl, ctx, aborted) ==
  LET r == FinalizeCall(job, impl, ctx, aborted)
  IN /\ ~IsInOptimizationQueue(r, job.f)
     /\ IF r.log.ret = "true"
          THEN FnIsOptimized(r, job.f) /\ impl = SUCCEEDED
          ELSE r.fn[job.f].code = shared.code
Settled ==
  \A job \in {j \in BagToSet(queue) : FinalizeEnabled(j)} :
    \A impl \in ImplOutcomes, ctx \in BOOLEAN, aborted \in BOOLEAN :
      FinalizeInput(job, impl, ctx, aborted)
      => Settles(job, impl, ctx, aborted)

====
